---- MODULE Spec2Model ----
(***************************************************************************)
(* Model of the data aggregation and reporting pipeline of metrika:        *)
(*   core/data_processor.py          DataProcessor                         *)
(*   core/excel_traffic_processor.py ExcelTrafficProcessor                 *)
(*   core/excel_exporter.py          ExcelExporter                         *)
(*   core/api_client.py              MetrikaApiClient.get_data             *)
(*   ui/main_window.py               MainWindow                            *)
(*   ui/params_tab.py                ParamsTab.get_report_params           *)
(*   ui/locations_tab.py             LocationsTab                          *)
(* Python values are modelled as follows.                                  *)
(*   dict   : a function whose DOMAIN is the set of keys                   *)
(*   list   : a sequence                                                   *)
(*   None   : the string NoneValue                                         *)
(*   str    : a TLA+ string, except the LocationKey strings and the date   *)
(*            strings, which the code takes apart: a LocationKey is a      *)
(*            sequence of tokens in which the token SEP stands for the     *)
(*            three characters " - ", a date string is a record of its     *)
(*            fields (see DateStr).                                        *)
(*   raise  : a result record with ok = FALSE and the exception's class    *)
(***************************************************************************)
EXTENDS Integers, Sequences, FiniteSets, TLC

VARIABLES
    pc,            \* position of the running operation
    data,          \* calculate_totals: its argument, List[ReportData]
    totals,        \* calculate_totals: the dict it returns
    api_response,  \* process_api_response: its argument data
    arg_location,  \* process_api_response: its argument location
    processed,     \* process_api_response: what it returned or raised
    raw_data,      \* the mapping LocationKey -> raw response, in key order
    matrix,        \* aggregate_traffic_data: the dict it returns
    traffic_data,  \* ExcelTrafficProcessor.traffic_data
    load_raised,   \* load_traffic_data: the exception it raised, or None
    report,        \* export_report: its argument data, in key order
    arg_filters,   \* export_report: its argument filters
    wb,            \* export_report: the workbook it builds
    export_result, \* export_report: None while it runs, or what it raised
    result_text,   \* _display_results: what it shows, or what it raised
    files,         \* the files at the paths the export and the patch use
    processor,     \* the ExcelTrafficProcessor: excel_file_path, traffic_data
    patch_args,    \* process: the output_path of the last call
    patch_result,  \* process: how the last call ended
    calls,         \* process: the number of calls so far
    params_locations, \* get_data: params.locations
    network,       \* get_data: how the request for each location ends
    requested,     \* get_data: the locations requested so far, in order
    api_result,    \* get_data: what it returned or raised
    params_tab,    \* ParamsTab: the dates and the behaviour its widgets show
    results,       \* MainWindow.results, in key order
    fetched,       \* the call of _process_api_data that last set results
    message,       \* the message box the last handler showed
    locations_data,  \* LocationsTab.locations_data["Rossiya"]
    locations_tree,  \* the check state of the items of LocationsTab.locations_tree
    selected_locations  \* what get_selected_locations last returned

varsTotals == <<data, totals>>
varsNormalize == <<api_response, arg_location, processed>>
varsMatrix == <<raw_data, matrix, traffic_data, load_raised>>
varsExport == <<report, arg_filters, wb, export_result, result_text>>
varsPatch == <<processor, patch_args, patch_result, calls>>
varsFetch == <<params_locations, network, requested, api_result>>
varsWindow == <<params_tab, results, fetched, message>>
varsTab == <<locations_data, locations_tree, selected_locations>>
varsUi == <<varsFetch, varsWindow, varsTab>>
vars == <<pc, varsTotals, varsNormalize, varsMatrix, varsExport, files, varsPatch, varsUi>>

(***************************************************************************)
(* Bounds of the model.                                                    *)
(***************************************************************************)
\* Records in the list given to calculate_totals.
MaxRecords == 3
\* Rows in the response given to process_api_response.
MaxRows == 3
\* Keys in the mapping of raw responses given to the matrix builders.
MaxLocations == 2
\* Rows in the whole mapping given to the matrix builders.
MaxMatrixRows == 3
\* Locations in the mapping given to export_report.
MaxExportLocations == 2
\* Records in the whole mapping given to export_report.
MaxExportRecords == 2
\* Calls of process in a run.
MaxPatchCalls == 2

NoneValue == "<None>"

\* All sequences over S of length at most n.
SeqsUpTo(S, n) == UNION {[1..k -> S] : k \in 0..n}

\* The elements of the list at the indices in S, from index i on, in their order.
RECURSIVE SubList(_, _, _)
SubList(records, S, i) ==
    IF i > Len(records) THEN <<>>
    ELSE (IF i \in S THEN <<records[i]>> ELSE <<>>) \o SubList(records, S, i + 1)

(***************************************************************************)
(* core/models.py                                                          *)
(***************************************************************************)
\* The token that stands for " - " in a name or LocationKey string.
SEP == "|"

\* Location(name, region, selected); name and region are token sequences.
Location(name, region, selected) ==
    [name |-> name, region |-> region, selected |-> selected]

\* datetime.date
Date(y, m, d) == [year |-> y, month |-> m, day |-> d]

\* ReportData; bounce_rate, page_depth and avg_visit_duration are never set
\* by the pipeline and stay None, they are left out.
ReportData(location, date, visits, users, pageviews, traffic_source) ==
    [location |-> location, date |-> date, visits |-> visits, users |-> users,
     pageviews |-> pageviews, traffic_source |-> traffic_source]

LocationA == Location(<<"A">>, <<"R">>, TRUE)

(***************************************************************************)
(* core/data_processor.py : DataProcessor.calculate_totals                 *)
(***************************************************************************)
\* The keys of SOURCE_MAPPING, which are also the keys of the matrix rows.
Categories ==
    {"organic", "direct", "ad", "internal", "referral", "recommendation", "social"}

SOURCE_MAPPING ==
    ("organic" :> "organic") @@ ("direct" :> "direct") @@ ("ad" :> "ad")
    @@ ("internal" :> "internal") @@ ("referral" :> "referral")
    @@ ("recommendation" :> "recommendation") @@ ("social" :> "social")

ZeroMetrics == [visits |-> 0, users |-> 0, pageviews |-> 0]

EmptyDict == [k \in {} |-> ZeroMetrics]

\* totals = {'all': {...: 0}, 'sources': {}}
InitTotals == [all |-> ZeroMetrics, sources |-> EmptyDict]

\* d['visits'] += item.visits; d['users'] += item.users; d['pageviews'] += ...
AddMetrics(d, item) ==
    [visits    |-> d.visits + item.visits,
     users     |-> d.users + item.users,
     pageviews |-> d.pageviews + item.pageviews]

\* Faulty variants of UpdateSources: the entry is overwritten instead of
\* added to; an unrecognised source is counted under a key.
UpdateSourcesOverwrite(sources, item) ==
    LET source == item.traffic_source IN
    IF source \in DOMAIN SOURCE_MAPPING
    THEN LET mapped_source == SOURCE_MAPPING[source] IN
         [c \in DOMAIN sources \cup {mapped_source} |->
            IF c = mapped_source THEN AddMetrics(ZeroMetrics, item) ELSE sources[c]]
    ELSE sources

UpdateSourcesOther(sources, item) ==
    LET source == item.traffic_source
        mapped_source == IF source \in DOMAIN SOURCE_MAPPING
                         THEN SOURCE_MAPPING[source] ELSE "organic"
        old == IF mapped_source \in DOMAIN sources
               THEN sources[mapped_source] ELSE ZeroMetrics IN
    [c \in DOMAIN sources \cup {mapped_source} |->
        IF c = mapped_source THEN AddMetrics(old, item) ELSE sources[c]]

\* The source-specific part of the loop body: a key appears in 'sources' when
\* the first record mapped to it arrives, then the three metrics are added.
UpdateSources(sources, item) ==
    LET source == item.traffic_source IN
    IF source \in DOMAIN SOURCE_MAPPING
    THEN LET mapped_source == SOURCE_MAPPING[source]
             old == IF mapped_source \in DOMAIN sources
                    THEN sources[mapped_source] ELSE ZeroMetrics IN
         [c \in DOMAIN sources \cup {mapped_source} |->
            IF c = mapped_source THEN AddMetrics(old, item) ELSE sources[c]]
    ELSE sources

\* Faulty variants of UpdateAll: only recognised sources are counted; users
\* is overwritten instead of added to.
UpdateAllRecognisedOnly(all, item) ==
    IF item.traffic_source \in DOMAIN SOURCE_MAPPING
    THEN AddMetrics(all, item) ELSE all

UpdateAllLastWins(all, item) ==
    [visits    |-> all.visits + item.visits,
     users     |-> item.users,
     pageviews |-> all.pageviews + item.pageviews]

\* The overall part of the loop body.
UpdateAll(all, item) == AddMetrics(all, item)

\* One iteration of "for item in data".
UpdateTotals(t, item) ==
    [all |-> UpdateAll(t.all, item), sources |-> UpdateSources(t.sources, item)]

RECURSIVE TotalsLoop(_, _, _)
TotalsLoop(records, i, t) ==
    IF i > Len(records) THEN t
    ELSE TotalsLoop(records, i + 1, UpdateTotals(t, records[i]))

calculate_totals(records) == TotalsLoop(records, 1, InitTotals)

(***************************************************************************)
(* core/data_processor.py : DataProcessor.process_api_response             *)
(*                                                                         *)
(* A raw row is [dimensions |-> <<dim, ...>>, metrics |-> <<n, ...>>]; a   *)
(* dimension is a dict with the keys 'name' and 'id'.  The first           *)
(* dimension's name is a date string, modelled by DateStr.                 *)
(***************************************************************************)
\* The text "{year}{sep}{month}{sep}{day}": a four-digit year, month and day
\* written with two digits when padded ("2024-01-02") and with as few digits
\* as they need otherwise ("2024-1-2").
DateStr(y, m, d, sep, padded) ==
    [year |-> y, month |-> m, day |-> d, sep |-> sep, padded |-> padded]

Return(value) == [ok |-> TRUE, value |-> value]

\* A raised exception: its class and the index of the row being processed.
Raise(exc, at) == [ok |-> FALSE, exc |-> exc, at |-> at]

IsLeap(y) == (y % 4 = 0 /\ y % 100 # 0) \/ y % 400 = 0

DaysInMonth(y, m) ==
    IF m = 2 THEN (IF IsLeap(y) THEN 29 ELSE 28)
    ELSE IF m \in {4, 6, 9, 11} THEN 30 ELSE 31

\* A faulty variant of strptime: every text counts as a date.
strptime_unchecked(date_str) ==
    Return(Date(date_str.year, date_str.month, date_str.day))

\* datetime.strptime(date_str, '%Y-%m-%d').date().  The format's regular
\* expression wants the separator "-", %m as 1[0-2]|0[1-9]|[1-9] and %d as
\* 3[01]|[12]\d|0[1-9]|[1-9], so a month or day without its leading zero
\* matches too; the date is then built, which fails for a day the month does
\* not have.  Both failures are a ValueError.
strptime(date_str) ==
    IF /\ date_str.sep = "-"
       /\ date_str.month \in 1..12
       /\ date_str.day \in 1..31
       /\ date_str.day <= DaysInMonth(date_str.year, date_str.month)
    THEN Return(Date(date_str.year, date_str.month, date_str.day))
    ELSE Raise("ValueError", 0)

\* A faulty variant of TrafficSourceOf: a sentinel where the code leaves None.
TrafficSourceOrSentinel(row) ==
    IF Len(row.dimensions) > 1 THEN row.dimensions[2].name ELSE "other"

\* row['dimensions'][1]['name'] if len(row['dimensions']) > 1 else None
TrafficSourceOf(row) ==
    IF Len(row.dimensions) > 1 THEN row.dimensions[2].name ELSE NoneValue

\* The body of the try block for one row, in the order the code evaluates it.
ProcessRow(row, location) ==
    IF Len(row.dimensions) = 0 THEN Raise("IndexError", 0)
    ELSE IF "name" \notin DOMAIN row.dimensions[1] THEN Raise("KeyError", 0)
    ELSE IF Len(row.dimensions) > 1 /\ "name" \notin DOMAIN row.dimensions[2]
    THEN Raise("KeyError", 0)
    ELSE LET date_obj == strptime(row.dimensions[1].name) IN
         IF ~date_obj.ok THEN date_obj
         ELSE IF Len(row.metrics) < 3 THEN Raise("IndexError", 0)
         ELSE Return(ReportData(location, date_obj.value, row.metrics[1],
                                row.metrics[2], row.metrics[3], TrafficSourceOf(row)))

\* A faulty variant of RowHandlerCatches: the ValueError of a bad date is not caught.
RowHandlerCatchesNoValueError == {"KeyError", "IndexError"}

\* except (KeyError, IndexError, ValueError) as e
RowHandlerCatches == {"KeyError", "IndexError", "ValueError"}

\* "for row in data['data']": a row that raises ends the call, and the list
\* built so far is dropped with the frame.
RECURSIVE RowLoop(_, _, _, _)
RowLoop(rows, location, i, processed_data) ==
    IF i > Len(rows) THEN Return(processed_data)
    ELSE LET r == ProcessRow(rows[i], location) IN
         IF r.ok THEN RowLoop(rows, location, i + 1, Append(processed_data, r.value))
         ELSE IF r.exc \in RowHandlerCatches THEN Raise("DataProcessingError", i)
         ELSE Raise(r.exc, i)

\* A faulty variant of process_api_response: no rows is reported as an error.
process_api_response_empty_raises(response, location) ==
    IF "data" \notin DOMAIN response THEN Raise("KeyError", 0)
    ELSE IF response.data = <<>> THEN Raise("DataProcessingError", 0)
    ELSE RowLoop(response.data, location, 1, <<>>)

\* "if not data['data']" is evaluated before the loop and outside its try
\* block: a response without the key 'data' raises KeyError there.
process_api_response(response, location) ==
    IF "data" \notin DOMAIN response THEN Raise("KeyError", 0)
    ELSE IF response.data = <<>> THEN Return(<<>>)
    ELSE RowLoop(response.data, location, 1, <<>>)

(***************************************************************************)
(* The traffic matrix: DataProcessor.aggregate_traffic_data and            *)
(* ExcelTrafficProcessor.load_traffic_data.                                *)
(*                                                                         *)
(* The mapping of raw responses is a dict in insertion order: a sequence   *)
(* of entries [key, value] with distinct keys.  The matrix is a dict       *)
(* city -> category -> visits, looked up by key only.                      *)
(***************************************************************************)
Entry(key, value) == [key |-> key, value |-> value]

\* str.split(" - "): the parts between the separators, in order; a text
\* without separator is its own single part.
RECURSIVE SplitFrom(_, _, _)
SplitFrom(text, i, part) ==
    IF i > Len(text) THEN <<part>>
    ELSE IF text[i] = SEP THEN <<part>> \o SplitFrom(text, i + 1, <<>>)
    ELSE SplitFrom(text, i + 1, Append(part, text[i]))

split(text) == SplitFrom(text, 1, <<>>)

\* ExcelTrafficProcessor.extract_city_name
extract_city_name(full_name) ==
    LET parts == split(full_name) IN
    IF Len(parts) > 1 THEN parts[Len(parts)] ELSE full_name

\* The extract_city_name nested in aggregate_traffic_data.
dp_extract_city_name(full_name) ==
    LET parts == split(full_name) IN
    IF Len(parts) > 1 THEN parts[Len(parts)] ELSE full_name

EmptyMatrix == [city \in {} |-> [c \in {} |-> 0]]

\* td[city] = row
SetCity(td, city, row) ==
    [c \in DOMAIN td \cup {city} |-> IF c = city THEN row ELSE td[c]]

\* if traffic_type in td[city]: td[city][traffic_type] += visits
AddVisits(td, city, traffic_type, visits) ==
    IF traffic_type \in DOMAIN td[city]
    THEN [td EXCEPT ![city][traffic_type] = @ + visits]
    ELSE td

\* A faulty variant of dp_zero_row: the row of ExcelExporter._calculate_totals,
\* which has no 'recommendation'.
dp_zero_row_six == [c \in Categories \ {"recommendation"} |-> 0]

\* {"organic": 0, "direct": 0, "ad": 0, "internal": 0, "referral": 0,
\*  "recommendation": 0, "social": 0}
dp_zero_row ==
    ("organic" :> 0) @@ ("direct" :> 0) @@ ("ad" :> 0) @@ ("internal" :> 0)
    @@ ("referral" :> 0) @@ ("recommendation" :> 0) @@ ("social" :> 0)

\* "for region_city in raw_data.keys()": every city starts at zero.
RECURSIVE dp_init_loop(_, _, _)
dp_init_loop(raw, k, td) ==
    IF k > Len(raw) THEN td
    ELSE dp_init_loop(raw, k + 1,
                      SetCity(td, dp_extract_city_name(raw[k].key), dp_zero_row))

\* One row: counted only when it has a second dimension.
dp_item(td, city, item) ==
    IF Len(item.dimensions) > 1
    THEN AddVisits(td, city, item.dimensions[2].id, item.metrics[1])
    ELSE td

RECURSIVE dp_rows_loop(_, _, _, _)
dp_rows_loop(rows, j, td, city) ==
    IF j > Len(rows) THEN td
    ELSE dp_rows_loop(rows, j + 1, dp_item(td, city, rows[j]), city)

\* A faulty variant of dp_entry: the city's row is set to zero again before each
\* response is added.
dp_entry_reset(td, entry) ==
    LET city == dp_extract_city_name(entry.key) IN
    dp_rows_loop(entry.value.data, 1, SetCity(td, city, dp_zero_row), city)

\* One pass of "for region_city, region_data in raw_data.items()".
dp_entry(td, entry) ==
    dp_rows_loop(entry.value.data, 1, td, dp_extract_city_name(entry.key))

RECURSIVE dp_data_loop(_, _, _)
dp_data_loop(raw, k, td) ==
    IF k > Len(raw) THEN td
    ELSE dp_data_loop(raw, k + 1, dp_entry(td, raw[k]))

aggregate_traffic_data(raw) ==
    dp_data_loop(raw, 1, dp_init_loop(raw, 1, EmptyMatrix))

\* ExcelTrafficProcessor.__init__ with traffic_columns=None.
traffic_columns ==
    ("organic" :> "G") @@ ("direct" :> "H") @@ ("ad" :> "I") @@ ("internal" :> "J")
    @@ ("referral" :> "K") @@ ("recommendation" :> "L") @@ ("social" :> "M")

\* A faulty variant of tp_init_loop: a city that has a row keeps it.
RECURSIVE tp_init_loop_keep(_, _, _)
tp_init_loop_keep(file_data, k, td) ==
    IF k > Len(file_data) THEN td
    ELSE tp_init_loop_keep(file_data, k + 1,
            IF extract_city_name(file_data[k].key) \in DOMAIN td THEN td
            ELSE SetCity(td, extract_city_name(file_data[k].key),
                         [key \in DOMAIN traffic_columns |-> 0]))

\* self.traffic_data[city] = {key: 0 for key in self.traffic_columns.keys()}
RECURSIVE tp_init_loop(_, _, _)
tp_init_loop(file_data, k, td) ==
    IF k > Len(file_data) THEN td
    ELSE tp_init_loop(file_data, k + 1,
                      SetCity(td, extract_city_name(file_data[k].key),
                              [key \in DOMAIN traffic_columns |-> 0]))

\* The state of load_traffic_data: self.traffic_data, and the exception that
\* ended the call (None while it runs).
Loading(td, raised) == [traffic_data |-> td, raised |-> raised]

\* One row: item["dimensions"][1] is read whatever the length of the list,
\* which is an IndexError for a row without second dimension.
tp_item(td, city, item) ==
    IF Len(item.dimensions) < 2 THEN Loading(td, "IndexError")
    ELSE Loading(AddVisits(td, city, item.dimensions[2].id, item.metrics[1]), NoneValue)

RECURSIVE tp_rows_loop(_, _, _, _)
tp_rows_loop(rows, j, td, city) ==
    IF j > Len(rows) THEN Loading(td, NoneValue)
    ELSE LET r == tp_item(td, city, rows[j]) IN
         IF r.raised # NoneValue THEN r
         ELSE tp_rows_loop(rows, j + 1, r.traffic_data, city)

\* A faulty variant of tp_entry: the city's row is set to zero again before each
\* response is added.
tp_entry_reset(td, entry) ==
    LET city == extract_city_name(entry.key) IN
    tp_rows_loop(entry.value.data, 1,
                 SetCity(td, city, [key \in DOMAIN traffic_columns |-> 0]), city)

\* One pass of "for region_city, region_data in data.items()".
tp_entry(td, entry) ==
    tp_rows_loop(entry.value.data, 1, td, extract_city_name(entry.key))

RECURSIVE tp_data_loop(_, _, _)
tp_data_loop(file_data, k, td) ==
    IF k > Len(file_data) THEN Loading(td, NoneValue)
    ELSE LET r == tp_entry(td, file_data[k]) IN
         IF r.raised # NoneValue THEN r
         ELSE tp_data_loop(file_data, k + 1, r.traffic_data)

\* load_traffic_data on a processor whose traffic_data is td, the JSON file
\* holding file_data.
load_traffic_data(td, file_data) ==
    tp_data_loop(file_data, 1, tp_init_loop(file_data, 1, td))

(***************************************************************************)
(* openpyxl, as far as the exporter and the patch step use it.             *)
(*   cell value : a number, a text or None.  A number is a fraction in     *)
(*                lowest terms, so that 4 / 2 and 2 are the same value; a  *)
(*                text is a sequence of tokens, as a LocationKey is.       *)
(*   worksheet  : its title and its rows; a row is the list of the values  *)
(*                of its cells from column A on, the cells to the right of *)
(*                the list are empty (None).  The number of rows is the    *)
(*                worksheet's _current_row.                                *)
(*   workbook   : the list of its worksheets.                              *)
(*   file       : absent, an .xlsx file that holds a workbook, or a JSON   *)
(*                file that holds a mapping of raw responses.              *)
(* The Cyrillic texts of the source are written in Latin letters.          *)
(***************************************************************************)
NoneCell == [kind |-> "none"]

Str(text) == [kind |-> "str", text |-> text]

RECURSIVE gcd(_, _)
gcd(a, b) == IF b = 0 THEN a ELSE gcd(b, a % b)

\* The number num / den, den > 0.
Number(num, den) ==
    [kind |-> "num", num |-> num \div gcd(num, den), den |-> den \div gcd(num, den)]

\* a / b on numbers: the quotient, or ZeroDivisionError.
ZeroDivisionError == [kind |-> "raise", exc |-> "ZeroDivisionError"]

truediv(a, b) == IF b = 0 THEN ZeroDivisionError ELSE Number(a, b)

Worksheet(title, rows) == [title |-> title, rows |-> rows]

\* ws.append(row): the row goes below the current row.
append(ws, row) == [ws EXCEPT !.rows = Append(@, row)]

ColumnLetters == <<"A", "B", "C", "D", "E", "F", "G", "H", "I", "J", "K", "L", "M">>

column_index(column) ==
    CHOOSE i \in 1..Len(ColumnLetters) : ColumnLetters[i] = column

\* ws.max_row: the last row that has a cell, 1 for a worksheet without cells.
max_row(ws) == IF ws.rows = <<>> THEN 1 ELSE Len(ws.rows)

\* ws[f"{column}{row}"].value
cell_value(ws, column, row) ==
    IF row <= Len(ws.rows) /\ column_index(column) <= Len(ws.rows[row])
    THEN ws.rows[row][column_index(column)]
    ELSE NoneCell

\* ws[row] for a row number: the cells of the row, made if they are not
\* there; the row becomes the current row when it lies below it.
touch_row(ws, row) ==
    IF row <= Len(ws.rows) THEN ws
    ELSE [ws EXCEPT !.rows = [r \in 1..row |-> IF r <= Len(@) THEN @[r] ELSE <<>>]]

sheetnames(book) == {book[s].title : s \in 1..Len(book)}

\* A title that a worksheet of the workbook has already is given the next
\* free number as suffix (the numbered titles of other worksheets are taken
\* into account only when they are this title with a number).
avoid_duplicate_name(names, value) ==
    IF value \notin names THEN value
    ELSE LET counts == {n \in 1..Cardinality(names) : Append(value, ToString(n)) \in names}
             highest == IF counts = {} THEN 0
                        ELSE CHOOSE n \in counts : \A m \in counts : m <= n IN
         Append(value, ToString(highest + 1))

\* A faulty variant of create_sheet: a title that is taken is an error.
create_sheet_unique(book, title) ==
    IF title \in sheetnames(book) THEN Raise("ValueError", "create_sheet")
    ELSE Return(Append(book, Worksheet(title, <<>>)))

\* wb.create_sheet(title=title)
create_sheet(book, title) ==
    Return(Append(book, Worksheet(avoid_duplicate_name(sheetnames(book), title), <<>>)))

\* The workbook with its last worksheet replaced.
WithLastSheet(book, ws) == [book EXCEPT ![Len(book)] = ws]

AbsentFile == [kind |-> "absent"]
XlsxFile(book) == [kind |-> "xlsx", sheets |-> book]
JsonFile(mapping) == [kind |-> "json", mapping |-> mapping]

(***************************************************************************)
(* core/excel_exporter.py : ExcelExporter                                  *)
(***************************************************************************)
SHEET_NAME_MAX_LENGTH == 31

\* The title of the summary sheet.
SUMMARY_TITLE == <<"Svodka">>

\* TRAFFIC_HEADERS, a dict in insertion order.
TRAFFIC_HEADERS ==
    <<Entry("organic", "Poiskovye"), Entry("direct", "Pryamye"),
      Entry("ad", "Reklama"), Entry("internal", "Vnutrennie"),
      Entry("referral", "Ssylki"), Entry("recommendation", "Rekomendatsii"),
      Entry("social", "Sotsseti")>>

\* TRAFFIC_HEADERS.get(key, default)
traffic_header(key, default) ==
    IF \E i \in 1..Len(TRAFFIC_HEADERS) : TRAFFIC_HEADERS[i].key = key
    THEN TRAFFIC_HEADERS[CHOOSE i \in 1..Len(TRAFFIC_HEADERS) :
                            TRAFFIC_HEADERS[i].key = key].value
    ELSE default

\* The rows above the table of the summary sheet: period, report name, the
\* filters when there are any, an empty row, the headers.
summary_head(date_from, date_to, filters) ==
    << <<Str(<<"Otchet za period s", date_from, "po", date_to>>)>>,
       <<Str(<<"Nazvanie otcheta: Yandex.Metrika", SEP, "Analitika po gorodam">>)>> >>
    \o (IF filters # "" THEN << <<Str(<<"Filtry:", filters>>)>> >> ELSE <<>>)
    \o << <<>>,
          <<Str(<<"Region">>), Str(<<"Gorod">>), Str(<<"Vizity">>),
            Str(<<"Posetiteli">>), Str(<<"Prosmotry">>), Str(<<"Glubina prosmotra">>)>>
          \o [i \in 1..Len(TRAFFIC_HEADERS) |-> Str(<<TRAFFIC_HEADERS[i].value>>)] >>

\* A faulty variant of pages_per_visit: the division is not guarded.
pages_per_visit_unguarded(pageviews, visits) == truediv(pageviews, visits)

\* totals['all']['pageviews'] / totals['all']['visits']
\*     if totals['all']['visits'] > 0 else 0
pages_per_visit(pageviews, visits) ==
    IF visits > 0 THEN truediv(pageviews, visits) ELSE Number(0, 1)

\* totals['sources'].get(source_key, {}).get('visits', 0)
source_visits(sources, source_key) ==
    IF source_key \in DOMAIN sources THEN sources[source_key].visits ELSE 0

\* The body of "for location, report_data in data.items()" up to the row
\* that is appended: the row, or the exception raised.
summary_row(location, report_data) ==
    LET parts == split(location) IN
    IF Len(parts) # 2 THEN Raise("ValueError", "_create_summary_sheet")
    ELSE LET t == calculate_totals(report_data)
             depth == pages_per_visit(t.all.pageviews, t.all.visits) IN
         IF depth.kind = "raise" THEN Raise(depth.exc, "_create_summary_sheet")
         ELSE Return(<<Str(parts[1]), Str(parts[2]), Number(t.all.visits, 1),
                       Number(t.all.users, 1), Number(t.all.pageviews, 1), depth>>
                     \o [i \in 1..Len(TRAFFIC_HEADERS) |->
                            Number(source_visits(t.sources, TRAFFIC_HEADERS[i].key), 1)])

\* A faulty variant of summary_rows_loop: a location without records gets no
\* row.
RECURSIVE summary_rows_loop_skip_empty(_, _, _)
summary_rows_loop_skip_empty(ws, d, k) ==
    IF k > Len(d) THEN Return(ws)
    ELSE LET r == summary_row(d[k].key, d[k].value) IN
         IF ~r.ok THEN r
         ELSE IF d[k].value = <<>> THEN summary_rows_loop_skip_empty(ws, d, k + 1)
         ELSE summary_rows_loop_skip_empty(append(ws, r.value), d, k + 1)

\* "for location, report_data in data.items()" of _create_summary_sheet.
RECURSIVE summary_rows_loop(_, _, _)
summary_rows_loop(ws, d, k) ==
    IF k > Len(d) THEN Return(ws)
    ELSE LET r == summary_row(d[k].key, d[k].value) IN
         IF ~r.ok THEN r
         ELSE summary_rows_loop(append(ws, r.value), d, k + 1)

RECURSIVE append_rows(_, _, _)
append_rows(ws, rows, k) ==
    IF k > Len(rows) THEN ws ELSE append_rows(append(ws, rows[k]), rows, k + 1)

\* _create_summary_sheet: the workbook with the summary sheet, or the
\* exception raised.
create_summary_sheet(book, d, date_from, date_to, filters) ==
    LET c == create_sheet(book, SUMMARY_TITLE) IN
    IF ~c.ok THEN c
    ELSE LET ws == append_rows(c.value[Len(c.value)],
                               summary_head(date_from, date_to, filters), 1)
             r == summary_rows_loop(ws, d, 1) IN
         IF r.ok THEN Return(WithLastSheet(c.value, r.value)) ELSE r

\* city[:self.SHEET_NAME_MAX_LENGTH]
sheet_title(city) ==
    IF Len(city) <= SHEET_NAME_MAX_LENGTH THEN city
    ELSE SubSeq(city, 1, SHEET_NAME_MAX_LENGTH)

\* The rows above the table of a per-location sheet.
city_head(city, date_from, date_to, filters) ==
    << <<Str(<<"Otchet za period s", date_from, "po", date_to>>)>>,
       <<Str(<<"Nazvanie otcheta: Yandex.Metrika", SEP>> \o city)>> >>
    \o (IF filters # ""
        THEN << <<Str(<<"Filtry:", filters, "i Gorod =">> \o city)>> >> ELSE <<>>)
    \o << <<>>,
          <<Str(<<"Data">>), Str(<<"Istochnik trafika">>), Str(<<"Vizity">>),
            Str(<<"Posetiteli">>), Str(<<"Glubina prosmotra">>)>> >>

\* item.date.strftime("%Y-%m-%d")
strftime(date) == DateStr(date.year, date.month, date.day, "-", TRUE)

\* TRAFFIC_HEADERS.get(item.traffic_source, item.traffic_source or "Drugie")
source_name(traffic_source) ==
    traffic_header(traffic_source,
                   IF traffic_source \in {NoneValue, ""} THEN "Drugie"
                   ELSE traffic_source)

\* item.pageviews / item.visits if item.visits > 0 else 0
page_depth(item) ==
    IF item.visits > 0 THEN truediv(item.pageviews, item.visits) ELSE Number(0, 1)

\* The body of "for item in report_data": the row, or the exception raised.
city_row(item) ==
    LET depth == page_depth(item) IN
    IF depth.kind = "raise" THEN Raise(depth.exc, "_create_city_sheet")
    ELSE Return(<<[kind |-> "date", text |-> strftime(item.date)],
                  Str(<<source_name(item.traffic_source)>>),
                  Number(item.visits, 1), Number(item.users, 1), depth>>)

RECURSIVE city_rows_loop(_, _, _)
city_rows_loop(ws, report_data, k) ==
    IF k > Len(report_data) THEN Return(ws)
    ELSE LET r == city_row(report_data[k]) IN
         IF ~r.ok THEN r
         ELSE city_rows_loop(append(ws, r.value), report_data, k + 1)

\* The row whose cells are given the header style: "for cell in ws[6]".
STYLED_ROW == 6

\* _create_city_sheet: the workbook with one more worksheet, or the
\* exception raised.
create_city_sheet(book, location, report_data, date_from, date_to, filters) ==
    LET parts == split(location) IN
    IF Len(parts) # 2 THEN Raise("ValueError", "_create_city_sheet")
    ELSE LET city == parts[2]
             c == create_sheet(book, sheet_title(city)) IN
         IF ~c.ok THEN Raise(c.exc, "_create_city_sheet")
         ELSE LET ws == touch_row(append_rows(c.value[Len(c.value)],
                                              city_head(city, date_from, date_to, filters),
                                              1),
                                  STYLED_ROW)
                  r == city_rows_loop(ws, report_data, 1) IN
              IF r.ok THEN Return(WithLastSheet(c.value, r.value)) ELSE r

\* A faulty variant of city_loop_done: the last location is left out.
city_loop_done_early(book, d) == Len(book) - 1 >= Len(d) - 1

\* "for location, report_data in data.items()" of export_report has made
\* the sheet of every location: the workbook holds the summary sheet and
\* one sheet for each location.
city_loop_done(book, d) == Len(book) - 1 >= Len(d)

\* temp_dir / f"temp_{file_path.name}", for the file_path "report.xlsx".
OutputPath == "report.xlsx"
TempPath == "temp/temp_report.xlsx"

\* raise ExcelExportError(f"Failed to export report: {str(e)}")
ExcelExportError(e) ==
    [ok |-> FALSE, exc |-> "ExcelExportError", at |-> e.at, cause |-> e.exc]

(***************************************************************************)
(* core/excel_traffic_processor.py : update_excel and process              *)
(***************************************************************************)
\* The defaults of ExcelTrafficProcessor.__init__.
json_path == "temp/api_response.json"
sheet_name == SUMMARY_TITLE
city_column == "B"

\* A faulty variant of getitem_sheet: the first worksheet stands in for a
\* worksheet that is not there.
getitem_sheet_or_first(book, name) ==
    IF name \in sheetnames(book)
    THEN Return(CHOOSE s \in 1..Len(book) : book[s].title = name)
    ELSE Return(1)

\* wb[name]: the place of the worksheet with this title, KeyError without.
getitem_sheet(book, name) ==
    IF name \in sheetnames(book)
    THEN Return(CHOOSE s \in 1..Len(book) : book[s].title = name)
    ELSE Raise("KeyError", "wb[sheet_name]")

\* The places of the columns of traffic_columns.
traffic_column_indexes == {column_index(traffic_columns[t]) : t \in DOMAIN traffic_columns}

traffic_type_at(i) ==
    CHOOSE t \in DOMAIN traffic_columns : column_index(traffic_columns[t]) = i

Widest(S) == CHOOSE n \in S : \A m \in S : m <= n

\* The row with the cells of every column of traffic_columns set from the
\* matrix row; cells between the end of the row and a cell that is set are
\* empty.
set_traffic_cells(old, matrix_row) ==
    [i \in 1..Widest(traffic_column_indexes \cup {Len(old)}) |->
        IF i \in traffic_column_indexes THEN Number(matrix_row[traffic_type_at(i)], 1)
        ELSE IF i <= Len(old) THEN old[i] ELSE NoneCell]

\* Faulty variants of patch_row: only the first column of traffic_columns is
\* written; a row whose city is not in the matrix is set to zero; the cell
\* left of the first traffic column is emptied as well.
patch_row_first_column_only(ws, row, td) ==
    LET city == cell_value(ws, city_column, row) IN
    IF city.kind = "str" /\ city.text \in DOMAIN td
    THEN LET new == set_traffic_cells(ws.rows[row], td[city.text]) IN
         [ws EXCEPT !.rows[row] =
            [i \in 1..Len(new) |->
                IF i = column_index(traffic_columns["organic"]) \/ i > Len(@)
                THEN new[i] ELSE @[i]]]
    ELSE ws

patch_row_zero_unmatched(ws, row, td) ==
    LET city == cell_value(ws, city_column, row) IN
    IF city.kind = "str" /\ city.text \in DOMAIN td
    THEN [ws EXCEPT !.rows[row] = set_traffic_cells(@, td[city.text])]
    ELSE IF city.kind = "str"
    THEN [ws EXCEPT !.rows[row] =
            set_traffic_cells(@, [key \in DOMAIN traffic_columns |-> 0])]
    ELSE ws

patch_row_clears_depth(ws, row, td) ==
    LET city == cell_value(ws, city_column, row) IN
    IF city.kind = "str" /\ city.text \in DOMAIN td
    THEN LET new == set_traffic_cells(ws.rows[row], td[city.text]) IN
         [ws EXCEPT !.rows[row] =
            [i \in 1..Len(new) |->
                IF i = column_index("F") THEN NoneCell ELSE new[i]]]
    ELSE ws

\* The body of "for row in range(1, sheet.max_row + 1)": a row whose city
\* cell is a key of traffic_data gets the city's matrix row.
patch_row(ws, row, td) ==
    LET city == cell_value(ws, city_column, row) IN
    IF city.kind = "str" /\ city.text \in DOMAIN td
    THEN [ws EXCEPT !.rows[row] = set_traffic_cells(@, td[city.text])]
    ELSE ws

RECURSIVE patch_rows_loop(_, _, _)
patch_rows_loop(ws, row, td) ==
    IF row > max_row(ws) THEN ws
    ELSE patch_rows_loop(patch_row(ws, row, td), row + 1, td)

\* What a step of the patch leaves: how it ended and the files.
Patched(result, fs) == [result |-> result, fs |-> fs]

\* load_workbook(path): the workbook of the file, or the exception raised.
load_workbook(fs, path) ==
    IF fs[path].kind = "xlsx" THEN Return(fs[path].sheets)
    ELSE IF fs[path].kind = "absent" THEN Raise("FileNotFoundError", "load_workbook")
    ELSE Raise("InvalidFileException", "load_workbook")

\* wb.save(path): the file holds the worksheets in their order, with their
\* titles and the values of their cells.
save(fs, book, path) == [fs EXCEPT ![path] = XlsxFile(book)]

\* A faulty variant of update_excel: the workbook is saved as soon as it is
\* open, and once more after the rows are written.
update_excel_save_first(td, fs, excel_file_path, output_path) ==
    LET w == load_workbook(fs, excel_file_path) IN
    IF ~w.ok THEN Patched(w, fs)
    ELSE LET s == getitem_sheet(w.value, sheet_name) IN
         IF ~s.ok THEN Patched(s, save(fs, w.value, output_path))
         ELSE Patched(Return(NoneValue),
                      save(fs, [w.value EXCEPT ![s.value] = patch_rows_loop(@, 1, td)],
                           output_path))

\* update_excel of a processor whose traffic_data is td.
update_excel(td, fs, excel_file_path, output_path) ==
    LET w == load_workbook(fs, excel_file_path) IN
    IF ~w.ok THEN Patched(w, fs)
    ELSE LET s == getitem_sheet(w.value, sheet_name) IN
         IF ~s.ok THEN Patched(s, fs)
         ELSE Patched(Return(NoneValue),
                      save(fs, [w.value EXCEPT ![s.value] = patch_rows_loop(@, 1, td)],
                           output_path))

\* What process leaves: how it ended, the processor's traffic_data and the
\* files.
Processed(result, td, fs) == [result |-> result, traffic_data |-> td, fs |-> fs]

\* process of a processor whose traffic_data is td: load_traffic_data, which
\* opens the JSON file first, then update_excel.
process(td, fs, excel_file_path, output_path) ==
    IF fs[json_path].kind # "json"
    THEN Processed(Raise("FileNotFoundError", "load_traffic_data"), td, fs)
    ELSE LET l == load_traffic_data(td, fs[json_path].mapping) IN
         IF l.raised # NoneValue
         THEN Processed(Raise(l.raised, "load_traffic_data"), l.traffic_data, fs)
         ELSE LET u == update_excel(l.traffic_data, fs, excel_file_path, output_path) IN
              Processed(u.result, l.traffic_data, u.fs)

(***************************************************************************)
(* Specification SpecTotals: calculate_totals applied to a record list.    *)
(***************************************************************************)
\* traffic_source values: the seven keys, an identifier that is no key (the
\* request-side word for organic) and None.
TotalsSources == Categories \cup {"search", NoneValue}

\* Every traffic_source value with one triple of metrics, and a second triple
\* for a key, for the unrecognised identifier and for None.
TotalsRecords ==
    {ReportData(LocationA, Date(2024, 1, 1), 2, 1, 5, s) : s \in TotalsSources}
    \cup {ReportData(LocationA, Date(2024, 1, 2), 3, 2, 4, s) :
            s \in {"organic", "search", NoneValue}}

\* The variables of an operation that a specification does not run.
IdleTotals == data = <<>> /\ totals = InitTotals

IdleNormalize ==
    /\ api_response = [data |-> <<>>]
    /\ arg_location = LocationA
    /\ processed = Return(<<>>)

IdleMatrix ==
    /\ raw_data = <<>>
    /\ matrix = EmptyMatrix
    /\ traffic_data = EmptyMatrix
    /\ load_raised = NoneValue

\* The paths of the files.
Paths == {TempPath, OutputPath, json_path}

IdleExport ==
    /\ report = <<>>
    /\ arg_filters = ""
    /\ wb = <<>>
    /\ export_result = Return(NoneValue)
    /\ result_text = Return(<<>>)

IdleFiles == files = [p \in Paths |-> AbsentFile]

IdlePatch ==
    /\ processor = [excel_file_path |-> "", traffic_data |-> EmptyMatrix]
    /\ patch_args = [output_path |-> ""]
    /\ patch_result = Return(NoneValue)
    /\ calls = 0

\* No message box shown yet, no call of _process_api_data made yet.
NoMessage == [kind |-> "none"]
NoCall == [called |-> FALSE]

IdleFetch ==
    /\ params_locations = <<>>
    /\ network = <<>>
    /\ requested = <<>>
    /\ api_result = Return(<<>>)

IdleWindow ==
    /\ params_tab = [date_from |-> "", date_to |-> "", behavior |-> ""]
    /\ results = <<>>
    /\ fetched = NoCall
    /\ message = NoMessage

IdleTab ==
    /\ locations_data = <<>>
    /\ locations_tree = <<>>
    /\ selected_locations = <<>>

IdleUi == IdleFetch /\ IdleWindow /\ IdleTab

InitTotalsSpec ==
    /\ pc = "totals_call"
    /\ data \in SeqsUpTo(TotalsRecords, MaxRecords)
    /\ totals = InitTotals
    /\ IdleNormalize
    /\ IdleMatrix
    /\ IdleExport
    /\ IdleFiles
    /\ IdlePatch
    /\ IdleUi

CalculateTotals ==
    /\ pc = "totals_call"
    /\ totals' = calculate_totals(data)
    /\ pc' = "totals_done"
    /\ UNCHANGED <<data, varsNormalize, varsMatrix, varsExport, files, varsPatch, varsUi>>

NextTotals == CalculateTotals

SpecTotals == InitTotalsSpec /\ [][NextTotals]_vars

(***************************************************************************)
(* Specification SpecNormalize: process_api_response applied to one        *)
(* location's raw response.                                                *)
(***************************************************************************)
LocationB == Location(<<"B">>, <<"S">>, TRUE)

\* The date dimension carries only its text; the traffic source dimension
\* carries the label the API shows ('name') and the identifier ('id').
DateDim(date_str) == [name |-> date_str]
SourceDim(name, id) == [name |-> name, id |-> id]
Row(dimensions, metrics) == [dimensions |-> dimensions, metrics |-> metrics]

\* Rows the API sends: zero-padded dates, with and without a traffic source,
\* the source's label equal to its identifier or not.
WellFormedRows ==
    {Row(<<DateDim(DateStr(2024, 1, 2, "-", TRUE)), SourceDim("organic", "organic")>>,
         <<2, 1, 5>>),
     Row(<<DateDim(DateStr(2024, 1, 1, "-", TRUE)),
           SourceDim("Search engine traffic", "organic")>>, <<3, 2, 4>>),
     Row(<<DateDim(DateStr(2024, 1, 1, "-", TRUE))>>, <<2, 1, 5>>),
     Row(<<DateDim(DateStr(2024, 2, 29, "-", TRUE)), SourceDim("direct", "direct")>>,
         <<0, 0, 0>>)}

\* "2024-1-2": not YYYY-MM-DD, and a date for strptime.
UnpaddedRows ==
    {Row(<<DateDim(DateStr(2024, 1, 2, "-", FALSE)), SourceDim("direct", "direct")>>,
         <<2, 1, 5>>)}

\* "2024-02-30", "2024.01.01", "2024-13-01", no dimension, two metrics.
MalformedRows ==
    {Row(<<DateDim(DateStr(2024, 2, 30, "-", TRUE)), SourceDim("organic", "organic")>>,
         <<2, 1, 5>>),
     Row(<<DateDim(DateStr(2024, 1, 1, ".", TRUE))>>, <<2, 1, 5>>),
     Row(<<DateDim(DateStr(2024, 13, 1, "-", TRUE))>>, <<2, 1, 5>>),
     Row(<<>>, <<2, 1, 5>>),
     Row(<<DateDim(DateStr(2024, 1, 1, "-", TRUE)), SourceDim("ad", "ad")>>, <<2, 1>>)}

NormalizeRows == WellFormedRows \cup UnpaddedRows \cup MalformedRows

InitNormalizeSpec ==
    /\ pc = "normalize_call"
    /\ api_response \in {[data |-> rows] : rows \in SeqsUpTo(NormalizeRows, MaxRows)}
    /\ arg_location \in {LocationA, LocationB}
    /\ processed = Return(<<>>)
    /\ IdleTotals
    /\ IdleMatrix
    /\ IdleExport
    /\ IdleFiles
    /\ IdlePatch
    /\ IdleUi

ProcessApiResponse ==
    /\ pc = "normalize_call"
    /\ processed' = process_api_response(api_response, arg_location)
    /\ pc' = "normalize_done"
    /\ UNCHANGED <<api_response, arg_location, varsTotals, varsMatrix,
                   varsExport, files, varsPatch, varsUi>>

NextNormalize == ProcessApiResponse

SpecNormalize == InitNormalizeSpec /\ [][NextNormalize]_vars

(***************************************************************************)
(* Specification SpecMatrix: the two matrix builders applied to a mapping  *)
(* of raw responses.                                                       *)
(***************************************************************************)
\* "R - A", "A" and "R - S - B": two keys of the city A, one of them without
\* separator, and a key with two separators.
MatrixKeys == << <<"R", SEP, "A">>, <<"A">>, <<"R", SEP, "S", SEP, "B">> >>

\* Rows of the API: a source whose label is not its identifier, a source
\* whose label is, a source that is no canonical category, and a row without
\* second dimension.
MatrixRows ==
    {Row(<<DateDim(DateStr(2024, 1, 1, "-", TRUE)),
           SourceDim("Search engine traffic", "organic")>>, <<2, 1, 5>>),
     Row(<<DateDim(DateStr(2024, 1, 1, "-", TRUE)), SourceDim("direct", "direct")>>,
         <<3, 2, 4>>),
     Row(<<DateDim(DateStr(2024, 1, 2, "-", TRUE)), SourceDim("Messengers", "messenger")>>,
         <<5, 4, 6>>),
     Row(<<DateDim(DateStr(2024, 1, 2, "-", TRUE))>>, <<7, 6, 8>>)}

\* The key lists: the keys of MatrixKeys at up to MaxLocations places, in
\* the order of MatrixKeys.
MatrixKeyLists ==
    {SubList(MatrixKeys, S, 1) :
        S \in {T \in SUBSET (1..Len(MatrixKeys)) : Cardinality(T) <= MaxLocations}}

RECURSIVE SumSeq(_)
SumSeq(lens) == IF lens = <<>> THEN 0 ELSE Head(lens) + SumSeq(Tail(lens))

\* The mapping with the given keys whose k-th response has lens[k] rows,
\* taken in order from the list rows.
MappingOf(keys, lens, rows) ==
    [k \in 1..Len(keys) |->
        Entry(keys[k],
              [data |-> SubSeq(rows, SumSeq(SubSeq(lens, 1, k - 1)) + 1,
                               SumSeq(SubSeq(lens, 1, k)))])]

\* Every mapping over a key list with at most MaxMatrixRows rows in all.
MatrixInputs ==
    UNION {UNION {{MappingOf(keys, lens, rows) : rows \in [1..SumSeq(lens) -> MatrixRows]} :
                  lens \in {l \in [1..Len(keys) -> 0..MaxMatrixRows] :
                                SumSeq(l) <= MaxMatrixRows}} :
           keys \in MatrixKeyLists}

InitMatrixSpec ==
    /\ pc = "matrix_call"
    /\ raw_data \in MatrixInputs
    /\ matrix = EmptyMatrix
    /\ traffic_data = EmptyMatrix
    /\ load_raised = NoneValue
    /\ IdleTotals
    /\ IdleNormalize
    /\ IdleExport
    /\ IdleFiles
    /\ IdlePatch
    /\ IdleUi

AggregateTrafficData ==
    /\ pc = "matrix_call"
    /\ matrix' = aggregate_traffic_data(raw_data)
    /\ pc' = "matrix_aggregated"
    /\ UNCHANGED <<raw_data, traffic_data, load_raised, varsTotals, varsNormalize,
                   varsExport, files, varsPatch, varsUi>>

\* The JSON file holds the mapping of raw responses.
LoadTrafficData ==
    /\ pc = "matrix_aggregated"
    /\ LET r == load_traffic_data(traffic_data, raw_data) IN
        /\ traffic_data' = r.traffic_data
        /\ load_raised' = r.raised
    /\ pc' = "matrix_loaded"
    /\ UNCHANGED <<raw_data, matrix, varsTotals, varsNormalize,
                   varsExport, files, varsPatch, varsUi>>

NextMatrix == AggregateTrafficData \/ LoadTrafficData

SpecMatrix == InitMatrixSpec /\ [][NextMatrix]_vars

(***************************************************************************)
(* Specification SpecExport: the results of a fetch are shown              *)
(* (MainWindow._display_results) and exported (export_report).  The export *)
(* runs statement by statement: pc names the statement that comes next.    *)
(***************************************************************************)
\* f"{location.region} - {location.name}"
location_key(loc) == loc.region \o <<SEP>> \o loc.name

\* A city name one character longer than a sheet title may be; two of them
\* differ in the last character only.
LongName(last) ==
    [i \in 1..SHEET_NAME_MAX_LENGTH + 1 |-> IF i <= SHEET_NAME_MAX_LENGTH THEN "x" ELSE last]

\* Two cities of one name in two regions, two cities whose names have the
\* same first SHEET_NAME_MAX_LENGTH characters, and a city of a region whose
\* name holds the separator.
ExportLocations ==
    <<Location(<<"A">>, <<"R">>, TRUE), Location(<<"A">>, <<"S">>, TRUE),
      Location(LongName("1"), <<"R">>, TRUE), Location(LongName("2"), <<"R">>, TRUE),
      Location(<<"B">>, <<"R", SEP, "S">>, TRUE)>>

\* The metrics and the traffic_source of a record: a day without visits, a
\* day of a source that is a key of TRAFFIC_HEADERS, and a day without source.
ExportRecordKinds ==
    {<<0, 0, 0, "organic">>, <<2, 1, 5, "direct">>, <<3, 2, 4, NoneValue>>}

\* The mapping of the locations whose k-th list has lens[k] records, their
\* kinds taken in order from the list kinds, one record a day.
ExportMappingOf(locs, lens, kinds) ==
    [k \in 1..Len(locs) |->
        Entry(location_key(locs[k]),
              [j \in 1..lens[k] |->
                  LET kind == kinds[SumSeq(SubSeq(lens, 1, k - 1)) + j] IN
                  ReportData(locs[k], Date(2024, 1, j),
                             kind[1], kind[2], kind[3], kind[4])])]

ExportLocationLists ==
    {SubList(ExportLocations, S, 1) :
        S \in {T \in SUBSET (1..Len(ExportLocations)) : Cardinality(T) <= MaxExportLocations}}

\* Every mapping of at most MaxExportLocations locations with at most
\* MaxExportRecords records in all.
ExportInputs ==
    UNION {UNION {{ExportMappingOf(locs, lens, kinds) :
                        kinds \in [1..SumSeq(lens) -> ExportRecordKinds]} :
                  lens \in {l \in [1..Len(locs) -> 0..MaxExportRecords] :
                                SumSeq(l) <= MaxExportRecords}} :
           locs \in ExportLocationLists}

\* date_from and date_to of the report, as export_to_excel formats them.
ReportDateFrom == "2024-01-01"
ReportDateTo == "2024-01-31"

\* The filter descriptions export_to_excel makes.
ExportFilters == {"", "robots = 'no'"}

\* A workbook that is no report.
OldWorkbook == <<Worksheet(<<"Sheet">>, << <<Str(<<"old">>), Str(<<"A">>)>> >>)>>

OrganicRow ==
    Row(<<DateDim(DateStr(2024, 1, 1, "-", TRUE)),
          SourceDim("Search engine traffic", "organic")>>, <<2, 1, 5>>)
DirectRow ==
    Row(<<DateDim(DateStr(2024, 1, 1, "-", TRUE)), SourceDim("direct", "direct")>>,
        <<3, 2, 4>>)
DateOnlyRow == Row(<<DateDim(DateStr(2024, 1, 2, "-", TRUE))>>, <<7, 6, 8>>)

\* The JSON file of the patch step: absent, or the raw responses of the
\* city A of the region R.
ExportJsonFiles ==
    {AbsentFile,
     JsonFile(<<Entry(<<"R", SEP, "A">>, [data |-> <<OrganicRow, DirectRow>>])>>)}

InitExportSpec ==
    /\ pc = "display_results"
    /\ report \in ExportInputs
    /\ arg_filters \in ExportFilters
    /\ wb = <<>>
    /\ export_result = Return(NoneValue)
    /\ result_text = Return(<<>>)
    /\ files \in {[p \in Paths |-> IF p = json_path THEN j
                                   ELSE IF p = OutputPath THEN o ELSE AbsentFile] :
                    j \in ExportJsonFiles, o \in {AbsentFile, XlsxFile(OldWorkbook)}}
    /\ IdleTotals
    /\ IdleNormalize
    /\ IdleMatrix
    /\ IdlePatch
    /\ IdleUi

\* stats['visits'] / data['totals']['all']['visits'] * 100
\*     if data['totals']['all']['visits'] > 0 else 0
percentage(stats_visits, all_visits) ==
    IF all_visits > 0 THEN truediv(stats_visits * 100, all_visits) ELSE Number(0, 1)

\* What _display_results shows of one location: the visits, and for each
\* source of the totals its visits and percentage.
display_location(location, report_data) ==
    LET t == calculate_totals(report_data) IN
    [location |-> location, visits |-> t.all.visits,
     sources |-> [s \in DOMAIN t.sources |->
                    [visits |-> t.sources[s].visits,
                     percentage |-> percentage(t.sources[s].visits, t.all.visits)]]]

\* _display_results: the text, or the exception of a division.
display_results(d) ==
    LET shown == [k \in 1..Len(d) |-> display_location(d[k].key, d[k].value)] IN
    IF \E k \in 1..Len(d) : \E s \in DOMAIN shown[k].sources :
            shown[k].sources[s].percentage.kind = "raise"
    THEN Raise("ZeroDivisionError", "_display_results")
    ELSE Return(shown)

DisplayResults ==
    /\ pc = "display_results"
    /\ result_text' = display_results(report)
    /\ pc' = "create_summary_sheet"
    /\ UNCHANGED <<report, arg_filters, wb, export_result, files,
                   varsTotals, varsNormalize, varsMatrix, varsPatch, varsUi>>

\* wb = Workbook(); wb.remove(wb.active); self._create_summary_sheet(...)
CreateSummarySheet ==
    /\ pc = "create_summary_sheet"
    /\ LET r == create_summary_sheet(<<>>, report, ReportDateFrom, ReportDateTo,
                                      arg_filters) IN
        IF r.ok
        THEN wb' = r.value /\ pc' = "city_sheets" /\ UNCHANGED export_result
        ELSE export_result' = ExcelExportError(r) /\ pc' = "export_raised"
             /\ UNCHANGED wb
    /\ UNCHANGED <<report, arg_filters, result_text, files,
                   varsTotals, varsNormalize, varsMatrix, varsPatch, varsUi>>

\* One pass of "for location, report_data in data.items()".
CreateCitySheet ==
    /\ pc = "city_sheets"
    /\ ~city_loop_done(wb, report)
    /\ LET entry == report[Len(wb)]
           r == create_city_sheet(wb, entry.key, entry.value,
                                  ReportDateFrom, ReportDateTo, arg_filters) IN
        IF r.ok
        THEN wb' = r.value /\ UNCHANGED <<pc, export_result>>
        ELSE export_result' = ExcelExportError(r) /\ pc' = "export_raised"
             /\ UNCHANGED wb
    /\ UNCHANGED <<report, arg_filters, result_text, files,
                   varsTotals, varsNormalize, varsMatrix, varsPatch, varsUi>>

\* wb.save(temp_file_path)
SaveIntermediate ==
    /\ pc = "city_sheets"
    /\ city_loop_done(wb, report)
    /\ files' = save(files, wb, TempPath)
    /\ pc' = "process"
    /\ UNCHANGED <<report, arg_filters, wb, export_result, result_text,
                   varsTotals, varsNormalize, varsMatrix, varsPatch, varsUi>>

\* ExcelTrafficProcessor(excel_file_path=str(temp_file_path))
\*     .process(output_path=str(file_path))
PatchStep ==
    /\ pc = "process"
    /\ LET p == process(EmptyMatrix, files, TempPath, OutputPath) IN
        /\ files' = p.fs
        /\ IF p.result.ok
           THEN pc' = "unlink" /\ UNCHANGED export_result
           ELSE export_result' = ExcelExportError(p.result) /\ pc' = "export_raised"
    /\ UNCHANGED <<report, arg_filters, wb, result_text,
                   varsTotals, varsNormalize, varsMatrix, varsPatch, varsUi>>

\* temp_file_path.unlink(), and export_report returns.
Unlink ==
    /\ pc = "unlink"
    /\ files' = [files EXCEPT ![TempPath] = AbsentFile]
    /\ pc' = "export_returned"
    /\ UNCHANGED <<report, arg_filters, wb, export_result, result_text,
                   varsTotals, varsNormalize, varsMatrix, varsPatch, varsUi>>

NextExport ==
    \/ DisplayResults
    \/ CreateSummarySheet
    \/ CreateCitySheet
    \/ SaveIntermediate
    \/ PatchStep
    \/ Unlink

SpecExport == InitExportSpec /\ [][NextExport]_vars

(***************************************************************************)
(* Specification SpecPatch: an ExcelTrafficProcessor, made for a workbook  *)
(* file, runs process, at most MaxPatchCalls times in all.                 *)
(***************************************************************************)
RECURSIVE city_sheets_loop(_, _, _, _, _, _)
city_sheets_loop(book, d, k, date_from, date_to, filters) ==
    IF k > Len(d) THEN Return(book)
    ELSE LET r == create_city_sheet(book, d[k].key, d[k].value,
                                    date_from, date_to, filters) IN
         IF ~r.ok THEN r
         ELSE city_sheets_loop(r.value, d, k + 1, date_from, date_to, filters)

\* The workbook export_report saves as intermediate file.
build_workbook(d, date_from, date_to, filters) ==
    LET s == create_summary_sheet(<<>>, d, date_from, date_to, filters) IN
    IF ~s.ok THEN s
    ELSE city_sheets_loop(s.value, d, 1, date_from, date_to, filters)

\* Reports: two cities of one name, the second without records; one city.
PatchReports ==
    {ExportMappingOf(SubSeq(ExportLocations, 1, 2), <<1, 0>>, << <<2, 1, 5, "direct">> >>),
     ExportMappingOf(SubSeq(ExportLocations, 1, 1), <<2>>,
                     << <<2, 1, 5, "direct">>, <<3, 2, 4, NoneValue>> >>)}

\* A workbook without summary sheet whose one sheet names the city A.
NoSummaryBook == <<Worksheet(<<"A">>, << <<Str(<<"R">>), Str(<<"A">>), Number(1, 1)>> >>)>>

\* A workbook whose summary sheet was not made by the exporter: a short row
\* of the city A, a row whose city cell is a number, an empty row, a full
\* row of a city Z; and a second sheet with a row of the city A.
ForeignBook ==
    <<Worksheet(<<"Other">>, << <<Str(<<"R">>), Str(<<"A">>), Number(1, 1)>> >>),
      Worksheet(SUMMARY_TITLE,
                << <<Str(<<"R">>), Str(<<"A">>), Number(1, 1)>>,
                   <<Str(<<"R">>), Number(5, 1)>>,
                   <<>>,
                   [i \in 1..Len(ColumnLetters) |->
                        IF i = 1 THEN Str(<<"R">>)
                        ELSE IF i = 2 THEN Str(<<"Z">>) ELSE Number(9, 1)]>>)>>

PatchWorkbookFiles ==
    {AbsentFile, XlsxFile(NoSummaryBook), XlsxFile(ForeignBook)}
    \cup {XlsxFile(build_workbook(d, ReportDateFrom, ReportDateTo, f).value) :
            d \in PatchReports, f \in ExportFilters}

\* The JSON file: absent, no response, the responses of one key, of two keys
\* of the city A and a key without separator, and a response with a row
\* without second dimension.
PatchJsonFiles ==
    {AbsentFile,
     JsonFile(<<>>),
     JsonFile(<<Entry(<<"R", SEP, "A">>, [data |-> <<OrganicRow, DirectRow>>])>>),
     JsonFile(<<Entry(<<"R", SEP, "A">>, [data |-> <<OrganicRow>>]),
                Entry(<<"S", SEP, "A">>, [data |-> <<OrganicRow, DirectRow>>]),
                Entry(<<"Q">>, [data |-> <<DirectRow>>])>>),
     JsonFile(<<Entry(<<"R", SEP, "A">>, [data |-> <<OrganicRow, DateOnlyRow>>])>>)}

\* ExcelTrafficProcessor(excel_file_path=path)
ExcelTrafficProcessor(path) == [excel_file_path |-> path, traffic_data |-> EmptyMatrix]

InitPatchSpec ==
    /\ pc = "patch_ready"
    /\ files \in {[p \in Paths |-> IF p = json_path THEN j
                                   ELSE IF p = OutputPath THEN o ELSE w] :
                    j \in PatchJsonFiles, o \in {AbsentFile, XlsxFile(OldWorkbook)},
                    w \in PatchWorkbookFiles}
    /\ processor = ExcelTrafficProcessor(TempPath)
    /\ patch_args = [output_path |-> ""]
    /\ patch_result = Return(NoneValue)
    /\ calls = 0
    /\ IdleTotals
    /\ IdleNormalize
    /\ IdleMatrix
    /\ IdleExport
    /\ IdleUi

\* A new processor for the workbook at one of the two paths.
NewProcessor ==
    /\ pc = "patch_ready"
    /\ \E path \in {TempPath, OutputPath} :
        /\ processor # ExcelTrafficProcessor(path)
        /\ processor' = ExcelTrafficProcessor(path)
    /\ UNCHANGED <<pc, files, patch_args, patch_result, calls,
                   varsTotals, varsNormalize, varsMatrix, varsExport, varsUi>>

\* processor.process(output_path)
Process ==
    /\ pc = "patch_ready"
    /\ calls < MaxPatchCalls
    /\ \E output_path \in {TempPath, OutputPath} :
        LET p == process(processor.traffic_data, files,
                         processor.excel_file_path, output_path) IN
        /\ files' = p.fs
        /\ processor' = [processor EXCEPT !.traffic_data = p.traffic_data]
        /\ patch_args' = [output_path |-> output_path]
        /\ patch_result' = p.result
    /\ calls' = calls + 1
    /\ UNCHANGED <<pc, varsTotals, varsNormalize, varsMatrix, varsExport, varsUi>>

NextPatch == NewProcessor \/ Process

SpecPatch == InitPatchSpec /\ [][NextPatch]_vars

(***************************************************************************)
(* Properties of calculate_totals (checked under SpecTotals).              *)
(***************************************************************************)
\* The sum of field f over the records of the list at the indices in I.
RECURSIVE SumAt(_, _, _)
SumAt(records, f, I) ==
    IF I = {} THEN 0
    ELSE LET i == CHOOSE x \in I : TRUE IN
         records[i][f] + SumAt(records, f, I \ {i})

MetricsAt(records, I) ==
    [visits    |-> SumAt(records, "visits", I),
     users     |-> SumAt(records, "users", I),
     pageviews |-> SumAt(records, "pageviews", I)]

Plus(a, b) ==
    [visits    |-> a.visits + b.visits,
     users     |-> a.users + b.users,
     pageviews |-> a.pageviews + b.pageviews]

\* sources[c], taken as zero when the key is absent.
SourceOrZero(t, c) == IF c \in DOMAIN t.sources THEN t.sources[c] ELSE ZeroMetrics

\* C1: totals['all'] holds, for each of visits, users and pageviews, the sum
\* of that field over all records of the list, whatever their traffic_source
\* is; for the empty list the three are 0.
C1_AllIsSumOverAllRecords ==
    pc = "totals_done" =>
        /\ totals.all = MetricsAt(data, 1..Len(data))
        /\ (data = <<>> => totals.all = ZeroMetrics)

C1_Witness ==
    /\ pc = "totals_done"
    /\ \E i, j, k \in 1..Len(data) :
        /\ data[i].traffic_source \in Categories
        /\ data[j].traffic_source = "search"
        /\ data[k].traffic_source = NoneValue
    /\ totals.all = [visits |-> 7, users |-> 4, pageviews |-> 14]

\* C2: for every canonical category c, sources[c] (zero when absent) is the
\* componentwise sum over exactly the records whose traffic_source is c; a
\* record whose traffic_source is None or no canonical key adds to no entry
\* of sources, and is still counted in 'all'.
C2_SourcesSumMatchingRecords ==
    pc = "totals_done" =>
        /\ DOMAIN totals.sources \subseteq Categories
        /\ \A c \in Categories :
            SourceOrZero(totals, c) =
                MetricsAt(data, {i \in 1..Len(data) : data[i].traffic_source = c})
        /\ LET Attributed == {i \in 1..Len(data) : data[i].traffic_source \in Categories}
               Unattributed == (1..Len(data)) \ Attributed IN
           totals.all = Plus(MetricsAt(data, Attributed), MetricsAt(data, Unattributed))

C2_Witness ==
    /\ pc = "totals_done"
    /\ Len(data) = 3
    /\ data[1].traffic_source = "direct"
    /\ data[2].traffic_source = "search"
    /\ data[3].traffic_source = "direct"
    /\ DOMAIN totals.sources = {"direct"}
    /\ totals.sources["direct"].visits < totals.all.visits

\* C3: for every split of the list into two sub-lists, the totals of the
\* list are the componentwise sum of the totals of the two sub-lists, for
\* 'all' and for every entry of 'sources' (absent counting as zero).
C3_TotalsAdditive ==
    pc = "totals_done" =>
        \A S \in SUBSET (1..Len(data)) :
            LET t1 == calculate_totals(SubList(data, S, 1))
                t2 == calculate_totals(SubList(data, (1..Len(data)) \ S, 1)) IN
            /\ totals.all = Plus(t1.all, t2.all)
            /\ \A c \in Categories :
                SourceOrZero(totals, c) = Plus(SourceOrZero(t1, c), SourceOrZero(t2, c))

C3_Witness ==
    /\ pc = "totals_done"
    /\ Len(data) = 3
    /\ data[1].traffic_source = "organic"
    /\ data[2].traffic_source = "social"
    /\ data[3].traffic_source = "organic"
    /\ data[1].visits # data[3].visits
    /\ totals.sources["organic"].visits = 5

\* C4: for every permutation of the list, calculate_totals returns the same
\* 'all' sums and the same 'sources' keys with the same sums.
C4_TotalsOrderInvariant ==
    pc = "totals_done" =>
        \A p \in Permutations(1..Len(data)) :
            LET shuffled == [i \in 1..Len(data) |-> data[p[i]]]
                t == calculate_totals(shuffled) IN
            /\ t.all = totals.all
            /\ DOMAIN t.sources = DOMAIN totals.sources
            /\ \A c \in DOMAIN t.sources : t.sources[c] = totals.sources[c]

C4_Witness ==
    /\ pc = "totals_done"
    /\ Len(data) = 3
    /\ data[1].traffic_source = "organic"
    /\ data[2].traffic_source = "internal"
    /\ data[3].traffic_source = "organic"
    /\ data[1].users # data[3].users
    /\ DOMAIN totals.sources = {"organic", "internal"}

(***************************************************************************)
(* Properties of process_api_response (checked under SpecNormalize).       *)
(***************************************************************************)
\* The text is a date in the format YYYY-MM-DD, month and day on two digits.
IsStrictDate(date_str) ==
    /\ date_str.sep = "-"
    /\ date_str.padded
    /\ date_str.month \in 1..12
    /\ date_str.day \in 1..DaysInMonth(date_str.year, date_str.month)

\* The row has the shape the data model asks for.
WellFormed(row) ==
    /\ Len(row.dimensions) >= 1
    /\ IsStrictDate(row.dimensions[1].name)
    /\ Len(row.metrics) >= 3

\* The record the claim expects for a row.
ExpectedRecord(row, loc) ==
    [location       |-> loc,
     date           |-> [year  |-> row.dimensions[1].name.year,
                         month |-> row.dimensions[1].name.month,
                         day   |-> row.dimensions[1].name.day],
     visits         |-> row.metrics[1],
     users          |-> row.metrics[2],
     pageviews      |-> row.metrics[3],
     traffic_source |-> IF Len(row.dimensions) >= 2
                        THEN row.dimensions[2].name ELSE NoneValue]

\* C5: when all rows are well-formed the call returns one record per row, in
\* row order: record i carries the given location, the date of row i's first
\* dimension, the metrics 0/1/2 as visits/users/pageviews and the second
\* dimension's name as traffic_source, None when the row has no second
\* dimension.
C5_OneRecordPerRowInOrder ==
    (/\ pc = "normalize_done"
     /\ \A i \in 1..Len(api_response.data) : WellFormed(api_response.data[i]))
    => /\ processed.ok
       /\ Len(processed.value) = Len(api_response.data)
       /\ \A i \in 1..Len(api_response.data) :
            processed.value[i] = ExpectedRecord(api_response.data[i], arg_location)

C5_Witness ==
    /\ pc = "normalize_done"
    /\ arg_location = LocationB
    /\ Len(api_response.data) = 3
    /\ \A i \in 1..3 : WellFormed(api_response.data[i])
    /\ processed.ok
    /\ Len(processed.value) = 3
    /\ processed.value[1].date = Date(2024, 1, 2)
    /\ processed.value[2].date = Date(2024, 1, 1)
    /\ processed.value[2].traffic_source = NoneValue
    /\ processed.value[3].traffic_source = "Search engine traffic"

\* The index of the first row of the list that is not in the set Good.
FirstNotIn(rows, Good) ==
    CHOOSE i \in 1..Len(rows) :
        /\ rows[i] \notin Good
        /\ \A j \in 1..(i - 1) : rows[j] \in Good

\* C6 as claimed: a row that is not well-formed (no strict YYYY-MM-DD date, no
\* dimension, fewer than 3 metrics) makes the call fail with
\* DataProcessingError at the first such row, and nothing is returned.
C6_Original_AnyNonStrictRowFails ==
    (/\ pc = "normalize_done"
     /\ \E i \in 1..Len(api_response.data) : ~WellFormed(api_response.data[i]))
    => /\ ~processed.ok
       /\ processed.exc = "DataProcessingError"
       /\ processed.at =
            FirstNotIn(api_response.data, {r \in NormalizeRows : WellFormed(r)})

\* The text is one strptime takes for a date with the format %Y-%m-%d: as
\* IsStrictDate, but month and day may lack their leading zero.
IsDateText(date_str) ==
    /\ date_str.sep = "-"
    /\ date_str.month \in 1..12
    /\ date_str.day \in 1..DaysInMonth(date_str.year, date_str.month)

Accepted(row) ==
    /\ Len(row.dimensions) >= 1
    /\ IsDateText(row.dimensions[1].name)
    /\ Len(row.metrics) >= 3

\* C6 (amended): a row whose first dimension is no date for strptime with
\* the format %Y-%m-%d (which takes "2024-1-2" too), that has no dimension or
\* that has fewer than 3 metrics makes the call fail with
\* DataProcessingError at the first such row: nothing is returned, neither
\* the records of the rows before it nor those of the rows after it.
C6_FirstRejectedRowAbortsLocation ==
    (/\ pc = "normalize_done"
     /\ \E i \in 1..Len(api_response.data) : ~Accepted(api_response.data[i]))
    => /\ ~processed.ok
       /\ "value" \notin DOMAIN processed
       /\ processed.exc = "DataProcessingError"
       /\ processed.at =
            FirstNotIn(api_response.data, {r \in NormalizeRows : Accepted(r)})

C6_Witness ==
    /\ pc = "normalize_done"
    /\ Len(api_response.data) = 3
    /\ WellFormed(api_response.data[1])
    /\ ~Accepted(api_response.data[2])
    /\ api_response.data[2].dimensions # <<>>
    /\ Len(api_response.data[2].metrics) = 3
    /\ WellFormed(api_response.data[3])
    /\ ~processed.ok
    /\ processed.at = 2

\* C7: a response whose 'data' list is empty is normalised to the empty
\* list, and nothing is raised.
C7_NoRowsGiveEmptyList ==
    (pc = "normalize_done" /\ api_response.data = <<>>)
    => (processed.ok /\ processed.value = <<>>)

C7_Witness ==
    /\ pc = "normalize_done"
    /\ api_response.data = <<>>
    /\ arg_location = LocationB
    /\ processed.ok

(***************************************************************************)
(* Properties of the traffic matrix (checked under SpecMatrix).            *)
(***************************************************************************)
\* The part of a key after its last " - ", the whole key when it has none.
LastSegment(key) ==
    LET seps == {i \in 1..Len(key) : key[i] = SEP}
        last == IF seps = {} THEN 0
                ELSE CHOOSE i \in seps : \A j \in seps : j <= i IN
    SubSeq(key, last + 1, Len(key))

\* The places <<k, j>> of the rows of the mapping that belong to the city and
\* carry the category identifier c as second dimension.
MatchingRows(raw, city, c) ==
    {p \in (1..Len(raw)) \X (1..MaxMatrixRows) :
        /\ LastSegment(raw[p[1]].key) = city
        /\ p[2] <= Len(raw[p[1]].value.data)
        /\ Len(raw[p[1]].value.data[p[2]].dimensions) >= 2
        /\ raw[p[1]].value.data[p[2]].dimensions[2].id = c}

RECURSIVE VisitsAt(_, _)
VisitsAt(raw, P) ==
    IF P = {} THEN 0
    ELSE LET p == CHOOSE q \in P : TRUE IN
         raw[p[1]].value.data[p[2]].metrics[1] + VisitsAt(raw, P \ {p})

MatchingVisits(raw, city, c) == VisitsAt(raw, MatchingRows(raw, city, c))

\* Every key's city is a key of the matrix m, with the seven categories as
\* keys, and with 0 where no row of the city matched the category.
Complete(m) ==
    \A k \in 1..Len(raw_data) :
        LET city == LastSegment(raw_data[k].key) IN
        /\ city \in DOMAIN m
        /\ DOMAIN m[city] = Categories
        /\ \A c \in Categories :
            MatchingRows(raw_data, city, c) = {} => m[city][c] = 0

\* C8: the city of every LocationKey of the mapping is a key of the matrix,
\* and its entry has all seven categories as keys (0 when nothing matched),
\* also for a location with no rows or no matching rows; for the matrix of
\* aggregate_traffic_data and for the one load_traffic_data builds.
C8_MatrixComplete ==
    /\ pc \in {"matrix_aggregated", "matrix_loaded"} => Complete(matrix)
    /\ pc = "matrix_loaded" => Complete(traffic_data)

C8_Witness ==
    /\ pc = "matrix_loaded"
    /\ load_raised = NoneValue
    /\ Len(raw_data) = 2
    /\ raw_data[1].key = <<"A">>
    /\ raw_data[1].value.data = <<>>
    /\ raw_data[2].key = <<"R", SEP, "S", SEP, "B">>
    /\ Len(raw_data[2].value.data) = 2
    /\ \A j \in 1..2 : raw_data[2].value.data[j].dimensions[2].id = "messenger"
    /\ DOMAIN traffic_data = {<<"A">>, <<"B">>}
    /\ \A c \in Categories : traffic_data[<<"B">>][c] = 0 /\ matrix[<<"A">>][c] = 0

\* The cells of the matrix m hold the visits of the matching rows, no more.
CellsAreMatchingVisits(m) ==
    \A k \in 1..Len(raw_data) :
        LET city == LastSegment(raw_data[k].key) IN
        \A c \in Categories : m[city][c] = MatchingVisits(raw_data, city, c)

\* C9 as claimed: a row adds its visits to matrix[city][category] if and only
\* if it has a second dimension whose identifier is a canonical key; a row
\* with another identifier or without second dimension changes no cell and
\* causes no error, in aggregate_traffic_data and in load_traffic_data.
C9_Original_UnmatchedRowsIgnored ==
    /\ pc \in {"matrix_aggregated", "matrix_loaded"} => CellsAreMatchingVisits(matrix)
    /\ pc = "matrix_loaded" =>
        (load_raised = NoneValue /\ CellsAreMatchingVisits(traffic_data))

\* C10: when several keys of the mapping extract to the same city, the
\* city's value for each category is the sum of the matching rows' visits
\* over all those responses: in the matrix aggregate_traffic_data returns,
\* and in the one load_traffic_data has built when it returns.
C10_SameCityAccumulates ==
    \A k1, k2 \in 1..Len(raw_data) :
        (k1 # k2 /\ LastSegment(raw_data[k1].key) = LastSegment(raw_data[k2].key))
        => LET city == LastSegment(raw_data[k1].key) IN
           \A c \in Categories :
               /\ pc \in {"matrix_aggregated", "matrix_loaded"}
                    => matrix[city][c] = MatchingVisits(raw_data, city, c)
               /\ (pc = "matrix_loaded" /\ load_raised = NoneValue)
                    => traffic_data[city][c] = MatchingVisits(raw_data, city, c)

C10_Witness ==
    /\ pc = "matrix_loaded"
    /\ load_raised = NoneValue
    /\ Len(raw_data) = 2
    /\ raw_data[1].key = <<"R", SEP, "A">>
    /\ raw_data[2].key = <<"A">>
    /\ Len(raw_data[1].value.data) = 2
    /\ Len(raw_data[2].value.data) = 1
    /\ traffic_data[<<"A">>]["organic"] = 4
    /\ traffic_data[<<"A">>]["direct"] = 3
    /\ matrix = traffic_data

(***************************************************************************)
(* Properties of export_report (checked under SpecExport).                 *)
(***************************************************************************)
\* The worksheet is the summary sheet: its title and its report name row.
IsSummarySheet(ws) ==
    /\ ws.title = SUMMARY_TITLE
    /\ Len(ws.rows) >= 2
    /\ ws.rows[2] = <<Str(<<"Nazvanie otcheta: Yandex.Metrika", SEP, "Analitika po gorodam">>)>>

\* The worksheet is the per-location sheet of the city: its report name row
\* names the city.
IsSheetOf(ws, city) ==
    /\ Len(ws.rows) >= 2
    /\ ws.rows[2] = <<Str(<<"Nazvanie otcheta: Yandex.Metrika", SEP>> \o city)>>

\* The workbook holds the summary sheet first, then one sheet for each of
\* the first n locations of the report, in their order.
BuiltUpTo(book, n) ==
    /\ Len(book) = 1 + n
    /\ n <= Len(report)
    /\ IsSummarySheet(book[1])
    /\ \A k \in 1..n : IsSheetOf(book[k + 1], LastSegment(report[k].key))

\* The patch step has opened the intermediate file: it returned, or it
\* raised.
PatchHasRun ==
    \/ pc \in {"unlink", "export_returned"}
    \/ /\ pc = "export_raised"
       /\ export_result.at \in {"load_traffic_data", "load_workbook", "wb[sheet_name]"}

\* C11: export_report writes the summary sheet first, then one sheet per
\* location in the mapping's order, then saves the intermediate workbook,
\* and the patch step opens the intermediate file only after that save: a
\* workbook under construction always is the summary sheet followed by the
\* sheets of the first locations, the intermediate file holds exactly the
\* complete workbook, the patch step runs only with that file in place, and
\* the output file is written only by the patch step, from the complete
\* workbook.
C11_BuildSavePatchInOrder ==
    /\ wb # <<>> => BuiltUpTo(wb, Len(wb) - 1)
    /\ files[TempPath].kind = "xlsx"
        => (files[TempPath].sheets = wb /\ BuiltUpTo(wb, Len(report)))
    /\ PatchHasRun
        => /\ BuiltUpTo(wb, Len(report))
           /\ pc # "export_returned" => files[TempPath] = XlsxFile(wb)
    /\ files[OutputPath] \notin {AbsentFile, XlsxFile(OldWorkbook)}
        => (PatchHasRun /\ BuiltUpTo(files[OutputPath].sheets, Len(report)))

C11_Witness ==
    /\ pc = "export_returned"
    /\ Len(report) = 2
    /\ files[TempPath] = AbsentFile
    /\ files[OutputPath].kind = "xlsx"
    /\ BuiltUpTo(files[OutputPath].sheets, 2)

(***************************************************************************)
(* Properties of the patch step (checked under SpecPatch).                 *)
(***************************************************************************)
\* A call of process is the step that counts it.
ProcessCalled == calls' = calls + 1

\* Loading the traffic data fails: the JSON file is not there, or a row has
\* no second dimension.
LoadFails ==
    \/ files[json_path].kind # "json"
    \/ \E k \in 1..Len(files[json_path].mapping) :
         \E j \in 1..Len(files[json_path].mapping[k].value.data) :
            Len(files[json_path].mapping[k].value.data[j].dimensions) < 2

\* Opening the workbook of the processor fails.
OpenFails == files[processor.excel_file_path].kind # "xlsx"

\* The workbook of the processor has no summary sheet.
SummaryMissing ==
    /\ files[processor.excel_file_path].kind = "xlsx"
    /\ \A s \in 1..Len(files[processor.excel_file_path].sheets) :
          files[processor.excel_file_path].sheets[s].title # SUMMARY_TITLE

\* C12: a call of process writes to the output path only after the traffic
\* data are loaded, the workbook is open and the summary sheet is found:
\* when one of the three fails, the call raises and no file changes, so a
\* file that was at the output path is as it was.
C12_OutputWrittenOnlyAfterValidation ==
    [][ProcessCalled =>
          /\ (LoadFails \/ OpenFails \/ SummaryMissing)
                => (files' = files /\ ~patch_result'.ok)
          /\ files' # files
                => /\ ~(LoadFails \/ OpenFails \/ SummaryMissing)
                   /\ patch_result'.ok
                   /\ \A p \in Paths \ {patch_args'.output_path} : files'[p] = files[p]]_vars

C12_Witness ==
    /\ calls = 1
    /\ ~patch_result.ok
    /\ patch_result.at = "wb[sheet_name]"
    /\ patch_args.output_path = OutputPath
    /\ processor.excel_file_path = TempPath
    /\ files[TempPath] = XlsxFile(NoSummaryBook)
    /\ files[OutputPath] = XlsxFile(OldWorkbook)

\* The summary sheet of the workbook in an .xlsx file.
SummaryOf(file) ==
    file.sheets[CHOOSE s \in 1..Len(file.sheets) : file.sheets[s].title = SUMMARY_TITLE]

\* The city cell of the row holds a key of the matrix.
CityInMatrix(ws, row, td) ==
    /\ cell_value(ws, city_column, row).kind = "str"
    /\ cell_value(ws, city_column, row).text \in DOMAIN td

\* C13: after a call of process that returned, every row of the summary
\* sheet of the output workbook, from row 1 to the last row, whose city cell
\* holds a key of the processor's matrix holds in the column of each
\* category the matrix value of that city and category.
C13_MatchedRowsHoldMatrixValues ==
    (calls >= 1 /\ patch_result.ok) =>
        LET ws == SummaryOf(files[patch_args.output_path])
            td == processor.traffic_data IN
        \A row \in 1..max_row(ws) :
            CityInMatrix(ws, row, td) =>
                \A t \in Categories :
                    cell_value(ws, traffic_columns[t], row)
                        = Number(td[cell_value(ws, city_column, row).text][t], 1)

C13_Witness ==
    /\ calls = 1
    /\ patch_result.ok
    /\ Len(files[json_path].mapping) = 3
    /\ processor.traffic_data[<<"A">>]["organic"] = 4
    /\ LET ws == SummaryOf(files[patch_args.output_path]) IN
        /\ Len(ws.rows) = 6
        /\ \A row \in 5..6 :
            /\ cell_value(ws, "B", row) = Str(<<"A">>)
            /\ cell_value(ws, "G", row) = Number(4, 1)
            /\ cell_value(ws, "H", row) = Number(3, 1)
            /\ cell_value(ws, "M", row) = Number(0, 1)

\* The row of the worksheet, the empty list when the worksheet ends above it.
RowOf(ws, row) == IF row <= Len(ws.rows) THEN ws.rows[row] ELSE <<>>

\* C14: a call of process that loads the traffic data, opens the workbook
\* and finds the summary sheet returns whatever the rows hold, and every row
\* of the summary sheet whose city cell is no key of the matrix is in the
\* output workbook cell for cell what it was in the workbook opened.
C14_UnmatchedRowsUntouched ==
    [][(ProcessCalled /\ ~(LoadFails \/ OpenFails \/ SummaryMissing)) =>
          /\ patch_result'.ok
          /\ LET before == SummaryOf(files[processor.excel_file_path])
                 after == SummaryOf(files'[patch_args'.output_path]) IN
             /\ Len(after.rows) = Len(before.rows)
             /\ \A row \in 1..max_row(before) :
                   ~CityInMatrix(before, row, processor'.traffic_data)
                       => RowOf(after, row) = RowOf(before, row)]_vars

C14_Witness ==
    /\ calls = 1
    /\ patch_result.ok
    /\ processor.excel_file_path = TempPath
    /\ patch_args.output_path = OutputPath
    /\ files[TempPath] = XlsxFile(ForeignBook)
    /\ <<"A">> \in DOMAIN processor.traffic_data
    /\ LET ws == SummaryOf(files[OutputPath]) IN
        /\ cell_value(ws, "G", 1) = Number(2, 1)
        /\ ws.rows[2] = <<Str(<<"R">>), Number(5, 1)>>
        /\ ws.rows[3] = <<>>
        /\ cell_value(ws, "B", 4) = Str(<<"Z">>)
        /\ cell_value(ws, "G", 4) = Number(9, 1)

\* The columns the patch is configured to write.
PatchedColumns == {traffic_columns[t] : t \in Categories}

\* C15: the workbook a call of process saves has the worksheets of the
\* workbook it opened, in the same order and with the same titles and
\* numbers of rows, and every cell that is not in a category column of the
\* summary sheet has the value it had: the per-location sheets and the
\* columns A to F of the summary sheet do not change.
C15_OnlyCategoryColumnsChange ==
    [][(ProcessCalled /\ patch_result'.ok) =>
          LET before == files[processor.excel_file_path].sheets
              after == files'[patch_args'.output_path].sheets IN
          /\ Len(after) = Len(before)
          /\ \A s \in 1..Len(before) :
                /\ after[s].title = before[s].title
                /\ Len(after[s].rows) = Len(before[s].rows)
                /\ \A row \in 1..Len(before[s].rows) :
                      \A i \in 1..Len(ColumnLetters) :
                         (before[s].title # SUMMARY_TITLE
                            \/ ColumnLetters[i] \notin PatchedColumns)
                         => cell_value(after[s], ColumnLetters[i], row)
                                = cell_value(before[s], ColumnLetters[i], row)]_vars

C15_Witness ==
    /\ calls = 1
    /\ patch_result.ok
    /\ processor.excel_file_path = TempPath
    /\ patch_args.output_path = OutputPath
    /\ Len(files[TempPath].sheets) = 3
    /\ files[OutputPath] # files[TempPath]
    /\ files[OutputPath].sheets[2] = files[TempPath].sheets[2]
    /\ files[OutputPath].sheets[3] = files[TempPath].sheets[3]
    /\ cell_value(SummaryOf(files[OutputPath]), "F", 5) = Number(5, 2)

\* The cells of the category columns of the worksheet, row by row.
PatchedCells(ws) ==
    [row \in 1..Len(ws.rows) |->
        [c \in PatchedColumns |-> cell_value(ws, c, row)]]

\* C16: when process has returned and is called again, by the same processor
\* or by a new one, on the workbook the first call saved and with the same
\* JSON file, and returns, the category columns of the summary sheet it
\* saves are those the first call saved; the output path may be the path of
\* the workbook opened.
C16_PatchIdempotent ==
    [][(/\ ProcessCalled
        /\ calls >= 1
        /\ patch_result.ok
        /\ processor.excel_file_path = patch_args.output_path
        /\ patch_result'.ok) =>
          PatchedCells(SummaryOf(files'[patch_args'.output_path]))
            = PatchedCells(SummaryOf(files[patch_args.output_path]))]_vars

C16_Witness ==
    /\ calls = 2
    /\ patch_result.ok
    /\ processor.excel_file_path = OutputPath
    /\ patch_args.output_path = OutputPath
    /\ <<"A">> \in DOMAIN processor.traffic_data
    /\ processor.traffic_data[<<"A">>]["organic"] = 4
    /\ cell_value(SummaryOf(files[OutputPath]), "B", 5) = Str(<<"A">>)
    /\ cell_value(SummaryOf(files[OutputPath]), "G", 5) = Number(4, 1)

FirstSegment(key) ==
    SubSeq(key, 1, (CHOOSE i \in 1..Len(key) :
                        key[i] = SEP /\ \A j \in 1..(i - 1) : key[j] # SEP) - 1)

\* The number of rows above the data rows of the summary sheet: period,
\* report name, filters if any, empty row, headers.
SummaryHeadRows == IF arg_filters = "" THEN 4 ELSE 5

\* The data row of the k-th location of the report in the summary sheet.
SummaryDataRow(ws, k) == ws.rows[SummaryHeadRows + k]

\* The summary sheet has one data row for each location of the report, in
\* the order of the mapping, with the region, the city and the sums of
\* visits, users and pageviews over the location's records, and thirteen
\* cells; the row of a location without records holds 0 from Visits on.
SummaryRowsMatchReport(ws) ==
    /\ Len(ws.rows) = SummaryHeadRows + Len(report)
    /\ ws.rows[SummaryHeadRows][2] = Str(<<"Gorod">>)
    /\ \A k \in 1..Len(report) :
        LET row == SummaryDataRow(ws, k)
            records == report[k].value IN
        /\ Len(row) = 13
        /\ row[1] = Str(FirstSegment(report[k].key))
        /\ row[2] = Str(LastSegment(report[k].key))
        /\ row[3] = Number(SumAt(records, "visits", 1..Len(records)), 1)
        /\ row[4] = Number(SumAt(records, "users", 1..Len(records)), 1)
        /\ row[5] = Number(SumAt(records, "pageviews", 1..Len(records)), 1)
        /\ records = <<>> => \A i \in 3..13 : row[i] = Number(0, 1)

\* C18: the summary sheet export_report builds, and saves in the
\* intermediate workbook, has exactly one data row per location of the
\* mapping, in the mapping's order, holding the location's region, city and
\* 'all' totals; a location without records has its row, with Visits,
\* Users, Pageviews, PagesPerVisit and the seven category cells equal to 0.
C18_SummaryRowPerLocation ==
    /\ wb # <<>> => SummaryRowsMatchReport(wb[1])
    /\ files[TempPath].kind = "xlsx" => SummaryRowsMatchReport(files[TempPath].sheets[1])

C18_Witness ==
    /\ pc = "process"
    /\ Len(report) = 2
    /\ report[1].value = <<>>
    /\ Len(report[2].value) = 2
    /\ LET ws == files[TempPath].sheets[1] IN
        /\ Len(ws.rows) = SummaryHeadRows + 2
        /\ SummaryDataRow(ws, 1)[2] = Str(<<"A">>)
        /\ SummaryDataRow(ws, 1)[6] = Number(0, 1)
        /\ SummaryDataRow(ws, 2)[2] = Str(<<"A">>)
        /\ SummaryDataRow(ws, 2)[3] = Number(5, 1)
        /\ SummaryDataRow(ws, 2)[5] = Number(9, 1)

\* The cell holds n / visits when visits > 0, and 0 when visits = 0.
IsGuardedQuotient(cell, n, visits) ==
    /\ cell.kind = "num"
    /\ visits = 0 => cell = Number(0, 1)
    /\ visits > 0 => cell.num * visits = n * cell.den

\* PagesPerVisit of the data rows of a summary sheet.
SummaryDepthGuarded(ws) ==
    \A k \in 1..Len(report) :
        LET records == report[k].value IN
        IsGuardedQuotient(SummaryDataRow(ws, k)[6],
                          SumAt(records, "pageviews", 1..Len(records)),
                          SumAt(records, "visits", 1..Len(records)))

\* PagesPerVisit of the data rows of the per-location sheet of the k-th
\* location: the rows are the last ones of the sheet, one for each record.
CityDepthGuarded(ws, k) ==
    LET records == report[k].value IN
    /\ Len(ws.rows) >= Len(records)
    /\ \A j \in 1..Len(records) :
        LET row == ws.rows[Len(ws.rows) - Len(records) + j] IN
        /\ Len(row) = 5
        /\ row[3] = Number(records[j].visits, 1)
        /\ IsGuardedQuotient(row[5], records[j].pageviews, records[j].visits)

\* The percentages _display_results shows.
PercentagesGuarded ==
    /\ result_text.ok
    /\ pc # "display_results" =>
        /\ Len(result_text.value) = Len(report)
        /\ \A k \in 1..Len(report) :
            LET records == report[k].value
                shown == result_text.value[k] IN
            \A s \in DOMAIN shown.sources :
                IsGuardedQuotient(shown.sources[s].percentage,
                                  shown.sources[s].visits * 100,
                                  SumAt(records, "visits", 1..Len(records)))

\* C19: every division by a visit count is guarded.  PagesPerVisit of each
\* summary row, PagesPerVisit of each row of a per-location sheet and the
\* percentage of each source shown after a fetch are 0 when the visits they
\* divide by are 0 and the quotient when the visits are positive, and no
\* run ends with a division error.
C19_DivisionsGuarded ==
    /\ PercentagesGuarded
    /\ wb # <<>> =>
        /\ SummaryDepthGuarded(wb[1])
        /\ \A s \in 2..Len(wb) : CityDepthGuarded(wb[s], s - 1)
    /\ pc = "export_raised" => export_result.cause # "ZeroDivisionError"

C19_Witness ==
    /\ pc = "process"
    /\ Len(report) = 2
    /\ Len(report[1].value) = 1
    /\ report[1].value[1].visits = 0
    /\ Len(report[2].value) = 1
    /\ report[2].value[1].visits = 2
    /\ result_text.value[1].sources["organic"].percentage = Number(0, 1)
    /\ result_text.value[2].sources["direct"].percentage = Number(100, 1)
    /\ SummaryDataRow(wb[1], 1)[6] = Number(0, 1)
    /\ SummaryDataRow(wb[1], 2)[6] = Number(5, 2)
    /\ wb[2].rows[Len(wb[2].rows)][5] = Number(0, 1)
    /\ wb[3].rows[Len(wb[3].rows)][5] = Number(5, 2)

\* Every key of the report is "region - city": it splits in exactly two.
KeysSplitInTwo ==
    \A k \in 1..Len(report) :
        Cardinality({i \in 1..Len(report[k].key) : report[k].key[i] = SEP}) = 1

\* The statements of export_report's build phase.
BuildPhase == {"_create_summary_sheet", "_create_city_sheet"}

\* The workbook has the summary sheet and one sheet for each location, all
\* under different titles; the sheet of a location without records ends
\* with its headers and the styled row, which is empty.
BuildComplete(book) ==
    /\ BuiltUpTo(book, Len(report))
    /\ \A s, t \in 1..Len(book) : s # t => book[s].title # book[t].title
    /\ \A k \in 1..Len(report) :
        report[k].value = <<>> =>
            /\ Len(book[k + 1].rows) = STYLED_ROW
            /\ book[k + 1].rows[STYLED_ROW] = <<>>
            /\ \E r \in 1..(STYLED_ROW - 1) :
                 /\ Len(book[k + 1].rows[r]) = 5
                 /\ book[k + 1].rows[r][1] = Str(<<"Data">>)

\* C20: for a mapping whose keys are "region - city", the build phase of
\* export_report does not raise and the workbook it saves holds the summary
\* sheet and one sheet per location: with two locations of the same city
\* name or of city names with the same first 31 characters, with no
\* location at all, and with a location without records, whose sheet has
\* the headers and no data row.
C20_BuildNeverRaises ==
    KeysSplitInTwo =>
        /\ pc = "export_raised" => export_result.at \notin BuildPhase
        /\ pc \in {"process", "unlink", "export_returned"} => BuildComplete(wb)
        /\ files[TempPath].kind = "xlsx" => BuildComplete(files[TempPath].sheets)

C20_Witness ==
    /\ pc = "process"
    /\ Len(report) = 2
    /\ report[1].key = <<"R", SEP>> \o LongName("1")
    /\ report[2].key = <<"R", SEP>> \o LongName("2")
    /\ report[1].value = <<>>
    /\ Len(files[TempPath].sheets) = 3
    /\ files[TempPath].sheets[2].title = SubSeq(LongName("1"), 1, SHEET_NAME_MAX_LENGTH)
    /\ files[TempPath].sheets[3].title
         = Append(SubSeq(LongName("2"), 1, SHEET_NAME_MAX_LENGTH), "1")

(***************************************************************************)
(* export_report as one call.                                              *)
(***************************************************************************)
Exported(result, fs) == [result |-> result, fs |-> fs]

\* export_report: the workbook is built and saved at the intermediate path,
\* the patch step writes the output, the intermediate file is unlinked; an
\* exception of any of these is raised as ExcelExportError and ends the call.
\* The end of export_report, p being what the patch step did.
export_report_patched(p) ==
    IF ~p.result.ok THEN Exported(ExcelExportError(p.result), p.fs)
    ELSE Exported(Return(NoneValue), [p.fs EXCEPT ![TempPath] = AbsentFile])

\* export_report from wb.save on, b being what the build made or raised.
export_report_built(b, fs) ==
    IF ~b.ok THEN Exported(ExcelExportError(b), fs)
    ELSE export_report_patched(process(EmptyMatrix, save(fs, b.value, TempPath),
                                       TempPath, OutputPath))

export_report(d, date_from, date_to, filters, fs) ==
    export_report_built(build_workbook(d, date_from, date_to, filters), fs)

(***************************************************************************)
(* Properties of the files export_report reads and leaves (SpecExport).    *)
(***************************************************************************)
ExportFinished == pc \in {"export_returned", "export_raised"}

\* C21: a run of export_report ends as the run with the same records,
\* dates and filters ends for any other content of the file at json_path,
\* absent included: both return or both raise, and when they return the
\* output workbook is the same.
C21_Original_SnapshotNotRead ==
    ExportFinished =>
        \A j \in ExportJsonFiles :
            LET other == export_report(report, ReportDateFrom, ReportDateTo, arg_filters,
                                       [p \in Paths |-> IF p = json_path THEN j
                                                        ELSE AbsentFile]) IN
            /\ other.result.ok = (pc = "export_returned")
            /\ other.result.ok => other.fs[OutputPath] = files[OutputPath]

\* C24: once _create_summary_sheet has run, the summary sheet has, for every
\* key of the report, a row whose city cell is the city extract_city_name
\* takes from that key, so that the patch step finds the row by that city.
C24_Original_JoinKeyConsistent ==
    pc \notin {"display_results", "create_summary_sheet"} =>
        \A k \in 1..Len(report) :
            /\ wb # <<>>
            /\ \E i \in 1..Len(wb[1].rows) :
                /\ Len(wb[1].rows[i]) >= column_index(city_column)
                /\ wb[1].rows[i][column_index(city_column)]
                        = Str(extract_city_name(report[k].key))

\* C25: when export_report has returned or raised, no file is left at the
\* intermediate path.
C25_Original_IntermediateDiscarded ==
    ExportFinished => files[TempPath] = AbsentFile

(***************************************************************************)
(* core/api_client.py : MetrikaApiClient.get_data                          *)
(*                                                                         *)
(* _make_api_request sends one GET and returns the response or raises a    *)
(* requests.exceptions.RequestException: net[k] is how the request for the *)
(* k-th location of params.locations ends, were it made.                   *)
(***************************************************************************)
\* Locations in params.locations.
MaxFetchLocations == 3

\* The classes of RequestException that requests.get and raise_for_status
\* raise.
RequestExceptions == {"ConnectionError", "Timeout", "HTTPError"}

\* raise MetrikaApiError(error_msg) from e, the message naming the location.
MetrikaApiError(name, e) ==
    [ok |-> FALSE, exc |-> "MetrikaApiError", at |-> name, cause |-> e.exc]

\* d[key] = value on a dict in insertion order: a new key goes last, a key
\* the dict has keeps its place.
setitem(d, key, value) ==
    IF \E i \in 1..Len(d) : d[i].key = key
    THEN [i \in 1..Len(d) |-> IF d[i].key = key THEN Entry(key, value) ELSE d[i]]
    ELSE Append(d, Entry(key, value))

\* What get_data did: its result and the requests it made, in order.
Fetched(result, log) == [result |-> result, requested |-> log]

\* A faulty variant of get_data_loop: a location whose request fails is left
\* out and the loop goes on.
RECURSIVE get_data_loop_skip_failed(_, _, _, _, _)
get_data_loop_skip_failed(locs, net, k, res, log) ==
    IF k > Len(locs) THEN Fetched(Return(res), log)
    ELSE IF ~locs[k].selected THEN get_data_loop_skip_failed(locs, net, k + 1, res, log)
    ELSE IF net[k].ok
    THEN get_data_loop_skip_failed(locs, net, k + 1,
                                   setitem(res, location_key(locs[k]), net[k].value),
                                   Append(log, locs[k]))
    ELSE get_data_loop_skip_failed(locs, net, k + 1, res, Append(log, locs[k]))

\* "for location in params.locations" of get_data, from the k-th location
\* on, with the dict results and the requests made so far.
RECURSIVE get_data_loop(_, _, _, _, _)
get_data_loop(locs, net, k, res, log) ==
    IF k > Len(locs) THEN Fetched(Return(res), log)
    ELSE IF ~locs[k].selected THEN get_data_loop(locs, net, k + 1, res, log)
    ELSE IF net[k].ok
    THEN get_data_loop(locs, net, k + 1,
                       setitem(res, location_key(locs[k]), net[k].value),
                       Append(log, locs[k]))
    ELSE Fetched(MetrikaApiError(locs[k].name, net[k]), Append(log, locs[k]))

get_data(locs, net) == get_data_loop(locs, net, 1, <<>>, <<>>)

(***************************************************************************)
(* Specification SpecFetch: get_data called with a list of locations, the  *)
(* network answering each request or failing it.                           *)
(***************************************************************************)
\* Two cities of one name in two regions and a second city of a region,
\* each selected or not.
FetchLocations ==
    {Location(c[1], c[2], s) :
        c \in {<< <<"A">>, <<"R">> >>, << <<"A">>, <<"S">> >>, << <<"B">>, <<"R">> >>},
        s \in BOOLEAN}

\* Lists of locations with different keys, as the locations tab makes them.
FetchLocationLists ==
    {l \in SeqsUpTo(FetchLocations, MaxFetchLocations) :
        \A i, j \in 1..Len(l) : location_key(l[i]) = location_key(l[j]) => i = j}

\* How a request ends: a response without rows, a response with a row, or
\* an exception.
NetworkOutcomes ==
    {Return([data |-> <<>>]), Return([data |-> <<DirectRow>>])}
    \cup {Raise(e, "_make_api_request") : e \in RequestExceptions}

InitFetchSpec ==
    /\ pc = "get_data_call"
    /\ params_locations \in FetchLocationLists
    /\ network \in [1..Len(params_locations) -> NetworkOutcomes]
    /\ requested = <<>>
    /\ api_result = Return(<<>>)
    /\ IdleTotals
    /\ IdleNormalize
    /\ IdleMatrix
    /\ IdleExport
    /\ IdleFiles
    /\ IdlePatch
    /\ IdleWindow
    /\ IdleTab

GetData ==
    /\ pc = "get_data_call"
    /\ LET f == get_data(params_locations, network) IN
        /\ api_result' = f.result
        /\ requested' = f.requested
    /\ pc' = "get_data_done"
    /\ UNCHANGED <<params_locations, network, varsTotals, varsNormalize, varsMatrix,
                   varsExport, files, varsPatch, varsWindow, varsTab>>

NextFetch == GetData

SpecFetch == InitFetchSpec /\ [][NextFetch]_vars

(***************************************************************************)
(* Properties of get_data (checked under SpecFetch).                       *)
(***************************************************************************)
\* The positions of the selected locations in params.locations.
SelectedAt == {k \in 1..Len(params_locations) : params_locations[k].selected}

\* The positions of the selected locations whose request fails.
FailingAt == {k \in SelectedAt : ~network[k].ok}

\* The first of them.
FirstFailing == CHOOSE k \in FailingAt : \A j \in FailingAt : k <= j

\* C23: when get_data has ended, the requests it made are those for the
\* selected locations, in the order of params.locations, up to and
\* including the first one that fails; if one fails, get_data raises
\* MetrikaApiError and gives no mapping; if none fails, it returns the
\* mapping with one entry per selected location, keyed "{region} - {name}",
\* in that order, holding the location's response.
C23_RetrievalAllOrNothingInOrder ==
    pc = "get_data_done" =>
        IF FailingAt # {}
        THEN /\ requested = SubList(params_locations,
                                    {k \in SelectedAt : k <= FirstFailing}, 1)
             /\ ~api_result.ok
             /\ api_result.exc = "MetrikaApiError"
             /\ "value" \notin DOMAIN api_result
        ELSE /\ requested = SubList(params_locations, SelectedAt, 1)
             /\ api_result.ok
             /\ api_result.value
                    = SubList([k \in 1..Len(params_locations) |->
                                  IF k \in SelectedAt
                                  THEN Entry(location_key(params_locations[k]),
                                             network[k].value)
                                  ELSE NoneValue],
                              SelectedAt, 1)

\* Three locations, the second not selected, the request for the third
\* would fail and the one for the first fails: only the first is requested.
C23_Witness ==
    /\ pc = "get_data_done"
    /\ Len(params_locations) = 3
    /\ SelectedAt = {1, 3}
    /\ FailingAt = {1, 3}
    /\ Len(requested) = 1
    /\ ~api_result.ok

(***************************************************************************)
(* ui/main_window.py : MainWindow._process_api_data                        *)
(***************************************************************************)
\* What _process_api_data did: self.results as it left it, and how it
\* ended.
ApiDataProcessed(res, raised) == [results |-> res, raised |-> raised]

\* "for location_key, data in raw_data.items()": the first location of the
\* list with the key is looked up, a key without location is passed over,
\* the response is normalised and stored with its totals; an exception of
\* process_api_response ends the loop with the entries stored so far.
RECURSIVE process_api_data_loop(_, _, _, _)
process_api_data_loop(raw, locations, k, res) ==
    IF k > Len(raw) THEN ApiDataProcessed(res, Return(NoneValue))
    ELSE LET matching == {i \in 1..Len(locations) :
                            location_key(locations[i]) = raw[k].key} IN
         IF matching = {} THEN process_api_data_loop(raw, locations, k + 1, res)
         ELSE LET location_obj == locations[CHOOSE i \in matching :
                                                \A j \in matching : i <= j]
                  processed_data == process_api_response(raw[k].value, location_obj) IN
              IF ~processed_data.ok THEN ApiDataProcessed(res, processed_data)
              ELSE process_api_data_loop(raw, locations, k + 1,
                       setitem(res, raw[k].key,
                               [data |-> processed_data.value,
                                totals |-> calculate_totals(processed_data.value)]))

\* self.results = {} and the loop.
process_api_data(raw, locations) == process_api_data_loop(raw, locations, 1, <<>>)

\* {loc: res['data'] for loc, res in self.results.items()}
export_data(res) == [k \in 1..Len(res) |-> Entry(res[k].key, res[k].value.data)]

(***************************************************************************)
(* Specification SpecPipeline: the raw responses of a fetch are            *)
(* normalised (_process_api_data) and the records exported                 *)
(* (export_report), the file at json_path holding the same raw responses.  *)
(***************************************************************************)
\* Locations of a fetch.
MaxPipelineLocations == 2

\* The rows of a response: none, a row whose source label differs from its
\* identifier, a row whose label is its identifier, both, and a row with a
\* source followed by a row without.
PipelineRowLists ==
    {<<>>, <<OrganicRow>>, <<DirectRow>>, <<OrganicRow, DirectRow>>,
     <<DirectRow, DateOnlyRow>>}

PipelineLocationLists ==
    {l \in SeqsUpTo({loc \in FetchLocations : loc.selected}, MaxPipelineLocations) :
        \A i, j \in 1..Len(l) : location_key(l[i]) = location_key(l[j]) => i = j}

InitPipelineSpec ==
    /\ pc = "process_api_data"
    /\ params_locations \in PipelineLocationLists
    /\ raw_data \in {[k \in 1..Len(params_locations) |->
                        Entry(location_key(params_locations[k]), [data |-> rows[k]])] :
                     rows \in [1..Len(params_locations) -> PipelineRowLists]}
    /\ files = [p \in Paths |-> IF p = json_path THEN JsonFile(raw_data) ELSE AbsentFile]
    /\ results = <<>>
    /\ message = NoMessage
    /\ export_result = Return(NoneValue)
    /\ report = <<>>
    /\ arg_filters = ""
    /\ wb = <<>>
    /\ result_text = Return(<<>>)
    /\ matrix = EmptyMatrix
    /\ traffic_data = EmptyMatrix
    /\ load_raised = NoneValue
    /\ network = <<>>
    /\ requested = <<>>
    /\ api_result = Return(<<>>)
    /\ params_tab = [date_from |-> "", date_to |-> "", behavior |-> ""]
    /\ fetched = NoCall
    /\ IdleTotals
    /\ IdleNormalize
    /\ IdlePatch
    /\ IdleTab

\* self._process_api_data(raw_data, locations)
ProcessApiData ==
    /\ pc = "process_api_data"
    /\ LET p == process_api_data(raw_data, params_locations) IN
        /\ results' = p.results
        /\ pc' = IF p.raised.ok THEN "export_report" ELSE "fetch_failed"
    /\ UNCHANGED <<raw_data, matrix, traffic_data, load_raised, varsExport, files,
                   varsFetch, params_tab, fetched, message,
                   varsTotals, varsNormalize, varsPatch, varsTab>>

\* exporter.export_report(data={loc: res['data'] ...}, ...)
ExportReport ==
    /\ pc = "export_report"
    /\ report' = export_data(results)
    /\ LET e == export_report(report', ReportDateFrom, ReportDateTo, arg_filters, files) IN
        /\ files' = e.fs
        /\ export_result' = e.result
    /\ pc' = "export_done"
    /\ UNCHANGED <<raw_data, matrix, traffic_data, load_raised, arg_filters, wb,
                   result_text, varsFetch, varsWindow,
                   varsTotals, varsNormalize, varsPatch, varsTab>>

NextPipeline == ProcessApiData \/ ExportReport

SpecPipeline == InitPipelineSpec /\ [][NextPipeline]_vars

(***************************************************************************)
(* Properties of the exported workbook against the records                 *)
(* (checked under SpecPipeline).                                           *)
(***************************************************************************)
\* export_report has returned: the output file is the final workbook.
PipelineExported == pc = "export_done" /\ export_result.ok

\* No two locations of the fetch have the same city name.
CitiesDiffer ==
    \A i, j \in 1..Len(params_locations) :
        params_locations[i].name = params_locations[j].name => i = j

\* C28: when no two locations share a city name, the summary sheet of the
\* final workbook is the summary sheet the report builder made from the
\* records: the patch step has written into every category cell the value
\* that calculate_totals(records).sources had put there.
C28_Original_PatchChangesNothing ==
    PipelineExported /\ CitiesDiffer =>
        files[OutputPath].sheets[1]
            = build_workbook(report, ReportDateFrom, ReportDateTo, arg_filters).value[1]

\* The numbers in the cells of a row at the given columns, added up.
RECURSIVE SumCells(_, _)
SumCells(row, columns) ==
    IF columns = {} THEN 0
    ELSE LET c == CHOOSE x \in columns : TRUE IN
         row[c].num + SumCells(row, columns \ {c})

\* C29: in the summary sheet of the final workbook the seven category cells
\* of every location's row add up to no more than the row's Visits cell.
C29_Original_CategoriesWithinVisits ==
    PipelineExported =>
        \A k \in 1..Len(report) :
            LET row == SummaryDataRow(files[OutputPath].sheets[1], k) IN
            SumCells(row, traffic_column_indexes) <= row[3].num

(***************************************************************************)
(* ui/main_window.py : MainWindow.get_metrika_data and export_to_excel     *)
(***************************************************************************)
\* The value of the widgets of the parameters tab that the two handlers
\* read: the counter id, the two dates and the behaviour.
Params(counter_id, date_from, date_to, behavior) ==
    [counter_id |-> counter_id, date_from |-> date_from, date_to |-> date_to,
     behavior |-> behavior]

\* validate_input, of what the model keeps of the widgets: a counter id is
\* given and the first date is not after the second.
validate_input(p) ==
    /\ p.counter_id # ""
    /\ \/ p.date_from.year < p.date_to.year
       \/ /\ p.date_from.year = p.date_to.year
          /\ \/ p.date_from.month < p.date_to.month
             \/ /\ p.date_from.month = p.date_to.month
                /\ p.date_from.day <= p.date_to.day

\* get_report_params: the parameters, or ValueError for invalid input.
get_report_params(p) ==
    IF validate_input(p) THEN Return(p) ELSE Raise("ValueError", "get_report_params")

\* The list filters of export_to_excel, joined with " AND ".
filters_description(behavior) ==
    IF behavior = "human" THEN "robots = 'no'"
    ELSE IF behavior = "robot" THEN "robots = 'yes'"
    ELSE ""

\* A message box: _show_error or _show_info, with the text's subject and
\* the class of the exception the text was made from, if any.
Message(kind, text, exc) == [kind |-> kind, text |-> text, exc |-> exc]

\* What get_metrika_data left: results, the label's text, the message, and
\* the call of _process_api_data, if it got that far.
Handled(res, text, msg, call) ==
    [results |-> res, result_text |-> text, message |-> msg, fetched |-> call]

\* The call of _process_api_data that set self.results: the parameters of
\* the fetch, the raw responses and whether the call returned.
ProcessCall(p, raw, returned) ==
    [called |-> TRUE, params |-> p, raw |-> raw, returned |-> returned]

\* The end of get_metrika_data, shown being what _display_results made of
\* the results res: the label's text is set and the success is reported,
\* or the exception is.
get_metrika_data_displayed(shown, res, text, call) ==
    IF ~shown.ok THEN Handled(res, text, Message("error", "get data", shown.exc), call)
    ELSE Handled(res, shown, Message("info", "data received", NoneValue), call)

\* get_metrika_data from _display_results on, a being what
\* _process_api_data did with the responses raw.
get_metrika_data_processed(a, report_params, raw, text) ==
    IF ~a.raised.ok
    THEN Handled(a.results, text, Message("error", "get data", a.raised.exc),
                 ProcessCall(report_params, raw, FALSE))
    ELSE get_metrika_data_displayed(display_results(export_data(a.results)), a.results,
                                    text, ProcessCall(report_params, raw, TRUE))

\* get_metrika_data from _process_api_data on, f being what get_data did.
get_metrika_data_fetched(f, locations, report_params, res, text, call) ==
    IF ~f.result.ok
    THEN Handled(res, text, Message("error", "get data", f.result.exc), call)
    ELSE get_metrika_data_processed(process_api_data(f.result.value, locations),
                                    report_params, f.result.value, text)

\* get_metrika_data with the token, the selected locations and the
\* parameters of the tabs, the network answering as net.
get_metrika_data(oauth_token, locations, p, net, res, text, call) ==
    IF oauth_token = ""
    THEN Handled(res, text, Message("error", "api not configured", NoneValue), call)
    ELSE IF locations = <<>>
    THEN Handled(res, text, Message("error", "no location selected", NoneValue), call)
    ELSE IF ~get_report_params(p).ok
    THEN Handled(res, text, Message("error", "parameters", get_report_params(p).exc), call)
    ELSE get_metrika_data_fetched(get_data(locations, net), locations,
                                  get_report_params(p).value, res, text, call)

\* What export_to_excel left: the files and the message.
ExportHandled(fs, msg) == [fs |-> fs, message |-> msg]

\* export_to_excel with the results held, the parameters of the tab as they
\* are now and the path chosen in the file dialog ("" when cancelled).
\* The end of export_to_excel, e being what export_report did.
export_to_excel_exported(e) ==
    IF e.result.ok THEN ExportHandled(e.fs, Message("info", "report saved", NoneValue))
    ELSE ExportHandled(e.fs, Message("error", "export", e.result.exc))

export_to_excel(res, p, file_path, fs, msg) ==
    IF res = <<>> THEN ExportHandled(fs, Message("error", "no data", NoneValue))
    ELSE IF ~get_report_params(p).ok
    THEN ExportHandled(fs, Message("error", "parameters", get_report_params(p).exc))
    ELSE IF file_path = "" THEN ExportHandled(fs, msg)
    ELSE export_to_excel_exported(
            export_report(export_data(res),
                          strftime(get_report_params(p).value.date_from),
                          strftime(get_report_params(p).value.date_to),
                          filters_description(get_report_params(p).value.behavior), fs))

(***************************************************************************)
(* Specification SpecWindow: the user changes the parameters, fetches and  *)
(* exports, in any order.                                                  *)
(***************************************************************************)
\* The parameters the widgets can show: January 2024 and all visitors,
\* February 2024 and people only, and dates in the wrong order without a
\* counter id.
WindowParams ==
    {Params("123", Date(2024, 1, 1), Date(2024, 1, 31), "all"),
     Params("123", Date(2024, 2, 1), Date(2024, 2, 29), "human"),
     Params("", Date(2024, 2, 1), Date(2024, 1, 31), "robot")}

\* What get_selected_locations returns: nothing, one city, two cities.
WindowSelections ==
    {<<>>, <<Location(<<"A">>, <<"R">>, TRUE)>>,
     <<Location(<<"A">>, <<"R">>, TRUE), Location(<<"B">>, <<"R">>, TRUE)>>}

\* A row with two metrics only.
TwoMetricsRow ==
    Row(<<DateDim(DateStr(2024, 1, 1, "-", TRUE)), SourceDim("ad", "ad")>>, <<2, 1>>)

\* How a request ends: a response with a row, a response whose second row
\* is malformed, a JSON body without the key 'data', or an exception.
WindowOutcomes ==
    {Return([data |-> <<DirectRow>>]), Return([data |-> <<DirectRow, TwoMetricsRow>>]),
     Return([total_rows |-> 0]), Raise("HTTPError", "_make_api_request")}

InitWindowSpec ==
    /\ pc = "window_ready"
    /\ params_tab = Params("123", Date(2024, 1, 1), Date(2024, 1, 31), "all")
    /\ results = <<>>
    /\ fetched = NoCall
    /\ message = NoMessage
    /\ result_text = Return(<<>>)
    /\ files \in {[p \in Paths |-> IF p = json_path THEN j ELSE AbsentFile] :
                    j \in ExportJsonFiles \ {AbsentFile}}
    /\ report = <<>>
    /\ arg_filters = ""
    /\ wb = <<>>
    /\ export_result = Return(NoneValue)
    /\ IdleTotals
    /\ IdleNormalize
    /\ IdleMatrix
    /\ IdlePatch
    /\ IdleFetch
    /\ IdleTab

\* The user edits the widgets of the parameters tab.
ChangeParams ==
    /\ pc = "window_ready"
    /\ params_tab' \in WindowParams \ {params_tab}
    /\ UNCHANGED <<pc, results, fetched, message, varsExport, files,
                   varsTotals, varsNormalize, varsMatrix, varsPatch, varsFetch, varsTab>>

\* A click on the button connected to get_metrika_data.
GetMetrikaData ==
    /\ pc = "window_ready"
    /\ \E oauth_token \in {"", "token"}, locations \in WindowSelections :
        \E net \in [1..Len(locations) -> WindowOutcomes] :
            LET h == get_metrika_data(oauth_token, locations, params_tab, net,
                                      results, result_text, fetched) IN
            /\ results' = h.results
            /\ result_text' = h.result_text
            /\ message' = h.message
            /\ fetched' = h.fetched
    /\ UNCHANGED <<pc, params_tab, report, arg_filters, wb, export_result, files,
                   varsTotals, varsNormalize, varsMatrix, varsPatch, varsFetch, varsTab>>

\* A click on the button connected to export_to_excel.
ExportToExcel ==
    /\ pc = "window_ready"
    /\ \E file_path \in {"", OutputPath} :
        LET h == export_to_excel(results, params_tab, file_path, files, message) IN
        /\ files' = h.fs
        /\ message' = h.message
    /\ UNCHANGED <<pc, params_tab, results, fetched, varsExport,
                   varsTotals, varsNormalize, varsMatrix, varsPatch, varsFetch, varsTab>>

NextWindow == ChangeParams \/ GetMetrikaData \/ ExportToExcel

SpecWindow == InitWindowSpec /\ [][NextWindow]_vars

(***************************************************************************)
(* Properties of the main window's handlers (checked under SpecWindow).    *)
(***************************************************************************)
\* core/exceptions.py: MetrikaError and its subclasses.
MetrikaErrors ==
    {"MetrikaError", "MetrikaApiError", "ConfigError", "DataProcessingError",
     "ExcelExportError"}

\* C22: an exception that get_metrika_data or export_to_excel catches from
\* the retrieval, the normalisation, the aggregation or the export is of
\* class MetrikaError or one of its subclasses.
C22_Original_FailuresAreTyped ==
    message.kind = "error" /\ message.text \in {"get data", "export"} =>
        message.exc \in MetrikaErrors

\* The keys of a dict in insertion order.
KeysOf(d) == {d[k].key : k \in 1..Len(d)}

\* C26: self.results is empty, or it was set by a call of _process_api_data
\* that returned and it has an entry for every location of the responses
\* given to that call.
C26_Original_ResultsFromOneCompleteFetch ==
    \/ results = <<>>
    \/ /\ fetched.called
       /\ fetched.returned
       /\ KeysOf(results) = KeysOf(fetched.raw)

\* C27: when export_to_excel has saved a report, the rows above the table
\* of its summary sheet give the period and the filters of the parameters
\* with which the exported records were fetched.
C27_Original_HeaderOfProducingFetch ==
    message = Message("info", "report saved", NoneValue) =>
        LET head == summary_head(strftime(fetched.params.date_from),
                                 strftime(fetched.params.date_to),
                                 filters_description(fetched.params.behavior)) IN
        SubSeq(files[OutputPath].sheets[1].rows, 1, Len(head)) = head

(***************************************************************************)
(* ui/locations_tab.py : LocationsTab                                      *)
(*                                                                         *)
(* locations_data["Rossiya"] maps each region to its flag 'full' and to    *)
(* the dict of its cities' flags; locations_tree holds, for each region    *)
(* item and each city item under it, whether its checkbox is checked.  An  *)
(* item's flags are the default ones: checking a region item does not      *)
(* check its children, nor the other way round.                            *)
(***************************************************************************)
\* The regions of the configuration, in the order of the dict, and the
\* cities of each.
TabRegions == << <<"R">>, <<"S">> >>

TabCities(region) == IF region = <<"R">> THEN << <<"A">>, <<"B">> >> ELSE << <<"A">> >>

RegionSet == {TabRegions[i] : i \in 1..Len(TabRegions)}

CitySet(region) == {TabCities(region)[i] : i \in 1..Len(TabCities(region))}

\* _update_locations_tree: the tree is cleared and built again from
\* locations_data, a region item checked when 'full' is true, a city item
\* when the city's flag is.
update_locations_tree(d) ==
    [r \in RegionSet |-> [checked |-> d[r].full, cities |-> d[r].cities]]

\* _update_region_state: the region's flag and the flags of all its cities
\* are set.
update_region_state(d, region_name, is_selected) ==
    [d EXCEPT ![region_name] =
        [full |-> is_selected, cities |-> [c \in CitySet(region_name) |-> is_selected]]]

\* _update_city_state: the city's flag is set, and the region is 'full'
\* when all its cities are selected.
update_city_state(d, region_name, city_name, is_selected) ==
    LET cities == [d[region_name].cities EXCEPT ![city_name] = is_selected] IN
    [d EXCEPT ![region_name] =
        [full |-> \A c \in CitySet(region_name) : cities[c], cities |-> cities]]

\* The locations get_selected_locations makes of the items from the i-th
\* region on.  walk_tree collects the checked items, regions and cities;
\* the second loop handles the items of type region only: each adds all the
\* cities that locations_data has for it.  A checked city item adds nothing.
RECURSIVE selected_from(_, _, _)
selected_from(tree, d, i) ==
    IF i > Len(TabRegions) THEN <<>>
    ELSE LET region == TabRegions[i] IN
         (IF tree[region].checked
          THEN [j \in 1..Len(TabCities(region)) |->
                    Location(TabCities(region)[j], region, TRUE)]
          ELSE <<>>)
         \o selected_from(tree, d, i + 1)

get_selected_locations(tree, d) == selected_from(tree, d, 1)

(***************************************************************************)
(* Specification SpecTab: the user toggles the checkboxes of region and    *)
(* city items, and the selection is read.                                  *)
(***************************************************************************)
\* The configurations load_locations gives: any flags of the cities, a
\* region 'full' when all its cities are selected.
TabConfigs ==
    {[r \in RegionSet |-> [full |-> \A c \in CitySet(r) : f[r][c], cities |-> f[r]]] :
        f \in {g \in [RegionSet -> [CitySet(<<"R">>) -> BOOLEAN]
                            \cup [CitySet(<<"S">>) -> BOOLEAN]] :
                 \A r \in RegionSet : DOMAIN g[r] = CitySet(r)}}

InitTabSpec ==
    /\ pc = "tab_ready"
    /\ locations_data \in TabConfigs
    /\ locations_tree = update_locations_tree(locations_data)
    /\ selected_locations = <<>>
    /\ IdleTotals
    /\ IdleNormalize
    /\ IdleMatrix
    /\ IdleExport
    /\ IdleFiles
    /\ IdlePatch
    /\ IdleFetch
    /\ IdleWindow

\* A click on the checkbox of a region item: the item changes, and
\* _on_item_changed updates the data and builds the tree again.
ToggleRegion ==
    /\ \E region \in RegionSet :
        LET is_checked == ~locations_tree[region].checked IN
        /\ locations_data' = update_region_state(locations_data, region, is_checked)
        /\ locations_tree' = update_locations_tree(locations_data')
    /\ pc' = "tab_ready"
    /\ UNCHANGED <<selected_locations, varsTotals, varsNormalize, varsMatrix, varsExport,
                   files, varsPatch, varsFetch, varsWindow>>

\* A click on the checkbox of a city item: the item changes, and
\* _on_item_changed updates the data; the tree is left as it is.
ToggleCity ==
    /\ \E region \in RegionSet : \E city \in CitySet(region) :
        LET is_checked == ~locations_tree[region].cities[city] IN
        /\ locations_tree' = [locations_tree EXCEPT ![region].cities[city] = is_checked]
        /\ locations_data' = update_city_state(locations_data, region, city, is_checked)
    /\ pc' = "tab_ready"
    /\ UNCHANGED <<selected_locations, varsTotals, varsNormalize, varsMatrix, varsExport,
                   files, varsPatch, varsFetch, varsWindow>>

\* self.locations_tab.get_selected_locations()
GetSelectedLocations ==
    /\ pc = "tab_ready"
    /\ selected_locations' = get_selected_locations(locations_tree, locations_data)
    /\ pc' = "locations_read"
    /\ UNCHANGED <<locations_data, locations_tree, varsTotals, varsNormalize, varsMatrix,
                   varsExport, files, varsPatch, varsFetch, varsWindow>>

NextTab == ToggleRegion \/ ToggleCity \/ GetSelectedLocations

SpecTab == InitTabSpec /\ [][NextTab]_vars

(***************************************************************************)
(* Properties of the selection (checked under SpecTab).                    *)
(***************************************************************************)
\* C30: what get_selected_locations returns is exactly the cities whose own
\* checkbox is checked, each once.
C30_Original_SelectedAreCheckedCities ==
    pc = "locations_read" =>
        /\ {<<selected_locations[i].region, selected_locations[i].name>> :
                i \in 1..Len(selected_locations)}
            = {<<r, c>> \in UNION {{<<x, y>> : y \in CitySet(x)} : x \in RegionSet} :
                    locations_tree[r].cities[c]}
        /\ \A i, j \in 1..Len(selected_locations) :
                selected_locations[i] = selected_locations[j] => i = j

====
